---- MODULE Spec2Model ----
(***************************************************************************)
(* A model of the ray tracer's intersection and shading pipeline.          *)
(*                                                                         *)
(* Numbers.  The program computes in f64.  The model computes in signed    *)
(* fixed point with six decimal places: the integer n stands for the       *)
(* number n / ONE, ONE = 10^6, so that EPSILON = 0.00001 is ten units.     *)
(* Every product, quotient and square root is rounded toward zero to a     *)
(* multiple of 1/ONE, which plays the part of f64 rounding.  TLC's         *)
(* integers are 32 bits wide and TLC stops on overflow, so every number    *)
(* that occurs in a checked run is smaller than 2147 in magnitude; the     *)
(* double-width product of two numbers is formed in three-digit limbs.     *)
(* The inputs are chosen so that no division by zero occurs (no ray has a  *)
(* zero direction); NaN and the infinities are not modelled.               *)
(***************************************************************************)
EXTENDS Integers, Sequences, FiniteSets, TLC

VARIABLES
    world,  \* World { light, objects }: the scene under query
    ray,    \* the Ray of the current query
    xs,     \* Intersections.intersections: the records under query
    op,     \* the operation that ran last
    ret,    \* what that operation returned or recorded
    camera, \* the Camera that renders
    image,  \* the Canvas a render writes to
    pc      \* where a render stands: the loop variables of each worker

vars == <<world, ray, xs, op, ret, camera, image, pc>>

----------------------------------------------------------------------------
(* f64 arithmetic in fixed point *)

LIMB == 10 * 10 * 10
ONE == LIMB * LIMB
HALF == ONE \div 2

FAbs(a) == IF a < 0 THEN -a ELSE a

\* High part of the double-width product a * b of two non-negative numbers,
\* that is (a * b) \div ONE, without forming a * b.
MulHi(a, b) ==
    LET ah == a \div LIMB
        al == a % LIMB
        bh == b \div LIMB
        bl == b % LIMB
        p1 == ah * bl
        p2 == al * bh
    IN  ah * bh + (p1 \div LIMB) + (p2 \div LIMB)
          + ((((p1 % LIMB) + (p2 % LIMB)) * LIMB + al * bl) \div ONE)

\* Low part of the same product: (a * b) % ONE.
MulLo(a, b) ==
    LET ah == a \div LIMB
        al == a % LIMB
        bh == b \div LIMB
        bl == b % LIMB
        p1 == ah * bl
        p2 == al * bh
    IN  ((((p1 % LIMB) + (p2 % LIMB)) * LIMB + al * bl) % ONE)

\* a * b
FMul(a, b) ==
    LET m == MulHi(FAbs(a), FAbs(b))
    IN  IF (a < 0) = (b < 0) THEN m ELSE -m

\* The digits of r / b after the decimal point, for 0 <= r < b.
RECURSIVE DivDigits(_, _, _, _)
DivDigits(r, b, n, acc) ==
    IF n = 0 THEN acc
    ELSE DivDigits((r * 10) % b, b, n - 1, acc * 10 + ((r * 10) \div b))

\* a / b, b # 0
FDiv(a, b) ==
    LET ua == FAbs(a)
        ub == FAbs(b)
        q  == (ua \div ub) * ONE + DivDigits(ua % ub, ub, 6, 0)
    IN  IF (a < 0) = (b < 0) THEN q ELSE -q

\* r * r <= a, compared in double width
SqrLe(r, a) ==
    \/ MulHi(r, r) < a
    \/ MulHi(r, r) = a /\ MulLo(r, r) = 0

\* The largest r in lo..hi with r * r <= a, by bisection (lo qualifies).
RECURSIVE SqrtSearch(_, _, _)
SqrtSearch(a, lo, hi) ==
    IF lo >= hi THEN lo
    ELSE LET mid == (lo + hi + 1) \div 2
         IN  IF SqrLe(mid, a) THEN SqrtSearch(a, mid, hi)
             ELSE SqrtSearch(a, lo, mid - 1)

\* The largest number whose square fits the 32-bit range.
SqrtMax == 46340 * LIMB

\* a.sqrt(), a >= 0
FSqrt(a) ==
    SqrtSearch(a, 0, IF a < ONE THEN ONE ELSE IF a < SqrtMax THEN a ELSE SqrtMax)

\* x.powf(n) for a whole exponent n >= 0, by repeated squaring
RECURSIVE FPow(_, _)
FPow(x, n) ==
    IF n = 0 THEN ONE
    ELSE LET h == FPow(x, n \div 2)
             s == FMul(h, h)
         IN  IF n % 2 = 1 THEN FMul(s, x) ELSE s

\* mathf::EPSILON
EPSILON == ONE \div 100000

\* mathf::approximately
approximately(a, b) == FAbs(a - b) < EPSILON

\* Option: None, Some(x)
None == <<>>

Some(x) == <<x>>

unwrap(o) == o[1]

\* What a call that panics leaves in place of a result
Panic == [panic |-> TRUE]

----------------------------------------------------------------------------
(* Vector3 *)

Vector3(x, y, z) == [x |-> x, y |-> y, z |-> z]

magnitude(v) == FSqrt(FMul(v.x, v.x) + FMul(v.y, v.y) + FMul(v.z, v.z))

normalize(v) ==
    LET mag == magnitude(v)
    IN  Vector3(FDiv(v.x, mag), FDiv(v.y, mag), FDiv(v.z, mag))

dot(a, b) == FMul(a.x, b.x) + FMul(a.y, b.y) + FMul(a.z, b.z)

VAdd(a, b) == Vector3(a.x + b.x, a.y + b.y, a.z + b.z)

VSub(a, b) == Vector3(a.x - b.x, a.y - b.y, a.z - b.z)

VMul(a, k) == Vector3(FMul(a.x, k), FMul(a.y, k), FMul(a.z, k))

VNeg(a) == Vector3(-a.x, -a.y, -a.z)

cross(a, rhs) ==
    Vector3(FMul(a.y, rhs.z) - FMul(a.z, rhs.y),
            FMul(a.z, rhs.x) - FMul(a.x, rhs.z),
            FMul(a.x, rhs.y) - FMul(a.y, rhs.x))

\* impl PartialEq for Vector3
Vector3Eq(a, b) ==
    approximately(a.x, b.x) /\ approximately(a.y, b.y) /\ approximately(a.z, b.z)

\* sphere::reflect
reflect(vector, normal) ==
    VSub(vector, VMul(VMul(normal, 2 * ONE), dot(vector, normal)))

----------------------------------------------------------------------------
(* Matrix: data[row][col], indices from 0 *)

Matrix(n, data) == [num_rows |-> n, num_cols |-> n, data |-> data]

identity_4x4 ==
    Matrix(4, [r \in 0..3 |-> [c \in 0..3 |-> IF r = c THEN ONE ELSE 0]])

translation(v) ==
    Matrix(4, [r \in 0..3 |-> [c \in 0..3 |->
        IF r = c THEN ONE
        ELSE IF c = 3 /\ r = 0 THEN v.x
        ELSE IF c = 3 /\ r = 1 THEN v.y
        ELSE IF c = 3 /\ r = 2 THEN v.z
        ELSE 0]])

scaling(v) ==
    Matrix(4, [r \in 0..3 |-> [c \in 0..3 |->
        IF r # c THEN 0
        ELSE IF r = 0 THEN v.x
        ELSE IF r = 1 THEN v.y
        ELSE IF r = 2 THEN v.z
        ELSE ONE]])

\* impl PartialEq for Matrix
MatrixEq(a, b) ==
    /\ a.num_rows = b.num_rows
    /\ a.num_cols = b.num_cols
    /\ \A r \in 0..(a.num_rows - 1), c \in 0..(a.num_cols - 1) :
          approximately(a.data[r][c], b.data[r][c])

\* transformations::shearing
shearing(xy, xz, yx, yz, zx, zy) ==
    Matrix(4, [r \in 0..3 |-> [c \in 0..3 |->
        IF r = c THEN ONE
        ELSE IF r = 0 /\ c = 1 THEN xy
        ELSE IF r = 0 /\ c = 2 THEN xz
        ELSE IF r = 1 /\ c = 0 THEN yx
        ELSE IF r = 1 /\ c = 2 THEN yz
        ELSE IF r = 2 /\ c = 0 THEN zx
        ELSE IF r = 2 /\ c = 1 THEN zy
        ELSE 0]])

multiply_4x4(m, rhs) ==
    Matrix(4, [row \in 0..3 |-> [col \in 0..3 |->
        FMul(m.data[row][0], rhs.data[0][col])
          + FMul(m.data[row][1], rhs.data[1][col])
          + FMul(m.data[row][2], rhs.data[2][col])
          + FMul(m.data[row][3], rhs.data[3][col])]])

\* pi / 4, the angle of the rotated camera
PI_4 == 785398

\* radians.cos() and radians.sin() of that angle
cos_sin_of(radians) == IF radians = PI_4 THEN 707107 ELSE 0

\* transformations::rotation_y, for the angle above
rotation_y(radians) ==
    [identity_4x4 EXCEPT !.data[0][0] = cos_sin_of(radians),
                         !.data[0][2] = cos_sin_of(radians),
                         !.data[2][0] = -cos_sin_of(radians),
                         !.data[2][2] = cos_sin_of(radians)]

\* transformations::view_transform
view_transform(from, to, up) ==
    LET forward == normalize(VSub(to, from))
        upn == normalize(up)
        left == cross(forward, upn)
        true_up == cross(left, forward)
        orientation ==
            Matrix(4, [r \in 0..3 |-> [c \in 0..3 |->
                IF r = 3 THEN (IF c = 3 THEN ONE ELSE 0)
                ELSE IF c = 3 THEN 0
                ELSE LET v == IF r = 0 THEN left
                              ELSE IF r = 1 THEN true_up
                              ELSE VNeg(forward)
                     IN  IF c = 0 THEN v.x ELSE IF c = 1 THEN v.y ELSE v.z]])
    IN  multiply_4x4(orientation, translation(Vector3(-from.x, -from.y, -from.z)))

\* One row of Matrix::multiply_vector4 on (x, y, z, w)
MulRow(m, r, v, w) ==
    FMul(m.data[r][0], v.x) + FMul(m.data[r][1], v.y)
      + FMul(m.data[r][2], v.z) + FMul(m.data[r][3], w)

\* Matrix::multiply_vector4 on (x, y, z, w); every caller drops the w of the
\* result, so only x, y, z are returned.
multiply_vector4(m, v, w) ==
    Vector3(MulRow(m, 0, v, w), MulRow(m, 1, v, w), MulRow(m, 2, v, w))

\* Matrix::multiply_vector3: w = 1.0
multiply_vector3(m, v) == multiply_vector4(m, v, ONE)

\* Matrix::multiply_point: the vector as a point, w = 1
multiply_point(m, v) == multiply_vector4(m, v, ONE)

\* Matrix::multiply_vector: the vector as a direction, w = 0
multiply_vector(m, v) == multiply_vector4(m, v, 0)

transpose(m) ==
    Matrix(m.num_rows,
           [row \in 0..(m.num_rows - 1) |-> [col \in 0..(m.num_cols - 1) |->
               m.data[col][row]]])

submatrix(m, remove_row, remove_col) ==
    Matrix(m.num_rows - 1,
           [row \in 0..(m.num_rows - 2) |-> [col \in 0..(m.num_cols - 2) |->
               m.data[IF row >= remove_row THEN row + 1 ELSE row]
                     [IF col >= remove_col THEN col + 1 ELSE col]]])

RECURSIVE determinant(_)

minor(m, row, col) == determinant(submatrix(m, row, col))

\* cofactor without the change of sign
CofactorUnsigned(m, row, col) == determinant(submatrix(m, row, col))

cofactor(m, row, col) ==
    IF (row + col) % 2 = 1 THEN -minor(m, row, col) ELSE minor(m, row, col)

RECURSIVE DetRow(_, _)
DetRow(m, col) ==
    IF col = m.num_cols THEN 0
    ELSE FMul(m.data[0][col], cofactor(m, 0, col)) + DetRow(m, col + 1)

determinant(m) ==
    IF m.num_rows = 2 \/ m.num_cols = 2
    THEN FMul(m.data[0][0], m.data[1][1]) - FMul(m.data[0][1], m.data[1][0])
    ELSE DetRow(m, 0)

\* is_invertible comparing the determinant with 0.0 exactly
IsInvertibleNonZero(m) == determinant(m) # 0

is_invertible(m) == ~approximately(determinant(m), 0)

\* inverse without the transposition of the cofactors
InverseNotTransposed(m) ==
    IF ~is_invertible(m) THEN Panic
    ELSE Matrix(m.num_rows,
                [row \in 0..(m.num_rows - 1) |-> [col \in 0..(m.num_cols - 1) |->
                    FDiv(cofactor(m, row, col), determinant(m))]])

\* Matrix::inverse; Panic stands for the panic on a matrix that is not
\* invertible.  The element [col][row] is cofactor(row, col) / determinant.
inverse(m) ==
    IF ~is_invertible(m) THEN Panic
    ELSE Matrix(m.num_rows,
                [col \in 0..(m.num_cols - 1) |-> [row \in 0..(m.num_rows - 1) |->
                    FDiv(cofactor(m, row, col), determinant(m))]])

----------------------------------------------------------------------------
(* Color, Material, PointLight *)

Color(r, g, b) == [r |-> r, g |-> g, b |-> b]

BLACK == Color(0, 0, 0)

WHITE == Color(ONE, ONE, ONE)

\* &Color * &Color: the Hadamard product
multiply_color(a, b) == Color(FMul(a.r, b.r), FMul(a.g, b.g), FMul(a.b, b.b))

\* &Color * f64
multiply_scalar(a, k) == Color(FMul(a.r, k), FMul(a.g, k), FMul(a.b, k))

CAdd(a, b) == Color(a.r + b.r, a.g + b.g, a.b + b.b)

Material(color, ambient, diffuse, specular, shininess) ==
    [color |-> color, ambient |-> ambient, diffuse |-> diffuse,
     specular |-> specular, shininess |-> shininess]

\* Material::new
MaterialNew == Material(WHITE, ONE \div 10, 9 * (ONE \div 10), 9 * (ONE \div 10), 200 * ONE)

PointLight(position, intensity) == [position |-> position, intensity |-> intensity]

----------------------------------------------------------------------------
(* Ray *)

Ray(origin, direction) == [origin |-> origin, direction |-> direction]

position(r, t) == VAdd(r.origin, VMul(r.direction, t))

\* transform with the direction multiplied as a point
RayTransformAsPoints(r, matrix) ==
    Ray(multiply_point(matrix, r.origin), multiply_point(matrix, r.direction))

\* Ray::transform
RayTransform(r, matrix) ==
    Ray(multiply_point(matrix, r.origin), multiply_vector(matrix, r.direction))

----------------------------------------------------------------------------
(* Shapes.  A shape value stands for the shared handle (Rc / Arc) to it:    *)
(* shapes are never changed after construction, and id tells two           *)
(* allocations apart.                                                      *)

Intersection(t, object) == [t |-> t, object |-> object]

\* Sphere::new, with the id that sphere_id() hands out
SphereNew(id, transform, material) ==
    IF inverse(transform) = Panic THEN Panic
    ELSE [kind |-> "Sphere", id |-> id, material |-> material,
          transform |-> transform, inverse_transform |-> inverse(transform)]

\* Plane::new; id names the allocation
PlaneNew(id, transform, material) ==
    IF inverse(transform) = Panic THEN Panic
    ELSE [kind |-> "Plane", id |-> id, material |-> material,
          transform |-> transform, inverse_transform |-> inverse(transform)]

\* The sphere's intersection returning a single record for a tangent ray
SphereOneRootOnTangent(shape, object_ray) ==
    LET sphere_to_ray == VSub(object_ray.origin, Vector3(0, 0, 0))
        a == dot(object_ray.direction, object_ray.direction)
        b == FMul(2 * ONE, dot(object_ray.direction, sphere_to_ray))
        c == dot(sphere_to_ray, sphere_to_ray) - ONE
        discriminant == FMul(b, b) - FMul(FMul(4 * ONE, a), c)
    IN  IF discriminant < 0 THEN <<>>
        ELSE IF discriminant = 0
        THEN <<Intersection(FDiv(-b, FMul(2 * ONE, a)), shape)>>
        ELSE LET disc_root == FSqrt(discriminant)
                 t1 == FDiv((-b) - disc_root, FMul(2 * ONE, a))
                 t2 == FDiv((-b) + disc_root, FMul(2 * ONE, a))
             IN  <<Intersection(t1, shape), Intersection(t2, shape)>>

\* The sphere's intersection with a ray in object space
SphereLocalIntersect(shape, object_ray) ==
    LET sphere_to_ray == VSub(object_ray.origin, Vector3(0, 0, 0))
        a == dot(object_ray.direction, object_ray.direction)
        b == FMul(2 * ONE, dot(object_ray.direction, sphere_to_ray))
        c == dot(sphere_to_ray, sphere_to_ray) - ONE
        discriminant == FMul(b, b) - FMul(FMul(4 * ONE, a), c)
    IN  IF discriminant < 0 THEN <<>>
        ELSE LET disc_root == FSqrt(discriminant)
                 t1 == FDiv((-b) - disc_root, FMul(2 * ONE, a))
                 t2 == FDiv((-b) + disc_root, FMul(2 * ONE, a))
             IN  <<Intersection(t1, shape), Intersection(t2, shape)>>

\* Plane::local_intersect treating |direction.y| = EPSILON as parallel
PlaneParallelAtEpsilon(shape, object_ray) ==
    IF FAbs(object_ray.direction.y) <= EPSILON THEN <<>>
    ELSE LET t == FDiv(-object_ray.origin.y, object_ray.direction.y)
         IN  <<Intersection(t, shape)>>

\* Plane::local_intersect
PlaneLocalIntersect(shape, object_ray) ==
    IF FAbs(object_ray.direction.y) < EPSILON THEN <<>>
    ELSE LET t == FDiv(-object_ray.origin.y, object_ray.direction.y)
         IN  <<Intersection(t, shape)>>

local_intersect(shape, object_ray) ==
    IF shape.kind = "Sphere" THEN SphereLocalIntersect(shape, object_ray)
    ELSE PlaneLocalIntersect(shape, object_ray)

\* The world ray moved by the shape's transform instead of its inverse
ObjectRayByTransform(shape, world_ray) == RayTransform(world_ray, shape.transform)

\* The ray that Shape::intersect hands to local_intersect
object_ray_of(shape, world_ray) == RayTransform(world_ray, shape.inverse_transform)

\* Shape::intersect, Sphere::intersect
intersect(shape, world_ray) == local_intersect(shape, object_ray_of(shape, world_ray))

local_normal_at(shape, object_point) ==
    IF shape.kind = "Sphere" THEN VSub(object_point, Vector3(0, 0, 0))
    ELSE Vector3(0, ONE, 0)

\* normal_at bringing the local normal back by the transform itself
NormalAtByTransform(shape, world_point) ==
    LET object_normal ==
            local_normal_at(shape, multiply_point(shape.inverse_transform, world_point))
    IN  normalize(multiply_vector(shape.transform, object_normal))

\* Shape::normal_at
normal_at(shape, world_point) ==
    LET object_normal ==
            local_normal_at(shape, multiply_point(shape.inverse_transform, world_point))
        world_normal ==
            multiply_vector(transpose(shape.inverse_transform), object_normal)
    IN  normalize(world_normal)

\* Sphere::normal_at of sphere.rs: inverts the transform on each call and
\* multiplies with multiply_vector3
SphereNormalAt(shape, world_point) ==
    LET object_point == multiply_vector3(inverse(shape.transform), world_point)
        object_normal == VSub(object_point, Vector3(0, 0, 0))
        world_normal ==
            multiply_vector3(transpose(inverse(shape.transform)), object_normal)
    IN  normalize(world_normal)

----------------------------------------------------------------------------
(* Intersections *)

\* The loop of Intersections::hit from record i on, result being the best
\* record so far.
RECURSIVE HitLoop(_, _, _)
HitLoop(intersections, i, result) ==
    IF i > Len(intersections) THEN result
    ELSE LET x == intersections[i]
         IN  IF x.t >= 0
             THEN IF result = None THEN HitLoop(intersections, i + 1, Some(x))
                  ELSE IF x.t < unwrap(result).t THEN HitLoop(intersections, i + 1, Some(x))
                  ELSE HitLoop(intersections, i + 1, result)
             ELSE HitLoop(intersections, i + 1, result)

\* hit with the test i.t > 0.0 in place of i.t >= 0.0
RECURSIVE HitLoopPositive(_, _, _)
HitLoopPositive(intersections, i, result) ==
    IF i > Len(intersections) THEN result
    ELSE LET x == intersections[i]
         IN  IF x.t > 0
             THEN IF result = None THEN HitLoopPositive(intersections, i + 1, Some(x))
                  ELSE IF x.t < unwrap(result).t
                       THEN HitLoopPositive(intersections, i + 1, Some(x))
                  ELSE HitLoopPositive(intersections, i + 1, result)
             ELSE HitLoopPositive(intersections, i + 1, result)

HitPositive(intersections) == HitLoopPositive(intersections, 1, None)

\* Intersections::hit
hit(intersections) == HitLoop(intersections, 1, None)

\* prepare_computations that flags the inside hit but keeps the normal
PrepareKeepsNormal(i, r) ==
    LET point == position(r, i.t)
        eye_vector == VNeg(r.direction)
        surface_normal == normal_at(i.object, point)
        is_inside == dot(surface_normal, eye_vector) < 0
        over_point == VAdd(point, VMul(surface_normal, EPSILON))
    IN  [t |-> i.t, object |-> i.object, point |-> point,
         eye_vector |-> eye_vector, normal_vector |-> surface_normal,
         is_inside |-> is_inside, over_point |-> over_point]

\* Intersection::prepare_computations
prepare_computations(i, r) ==
    LET point == position(r, i.t)
        eye_vector == VNeg(r.direction)
        surface_normal == normal_at(i.object, point)
        is_inside == dot(surface_normal, eye_vector) < 0
        normal_vector == IF is_inside THEN VNeg(surface_normal) ELSE surface_normal
        over_point == VAdd(point, VMul(normal_vector, EPSILON))
    IN  [t |-> i.t, object |-> i.object, point |-> point,
         eye_vector |-> eye_vector, normal_vector |-> normal_vector,
         is_inside |-> is_inside, over_point |-> over_point]

----------------------------------------------------------------------------
(* phong_lighting::lighting *)

\* lighting without the early return for a point in shadow
LightingIgnoresShadow(material, light, point, eye_vector, normal_vector, in_shadow) ==
    LET effective_color == multiply_color(material.color, light.intensity)
        ambient == multiply_scalar(effective_color, material.ambient)
        light_vector == normalize(VSub(light.position, point))
        light_dot_normal == dot(light_vector, normal_vector)
        reflect_dot_eye == dot(reflect(VNeg(light_vector), normal_vector), eye_vector)
        diffuse ==
            IF light_dot_normal < 0 THEN BLACK
            ELSE multiply_scalar(multiply_scalar(effective_color, material.diffuse),
                                 light_dot_normal)
        specular ==
            IF light_dot_normal < 0 \/ reflect_dot_eye <= 0 THEN BLACK
            ELSE multiply_scalar(multiply_scalar(light.intensity, material.specular),
                                 FPow(reflect_dot_eye, material.shininess \div ONE))
    IN  CAdd(CAdd(ambient, diffuse), specular)

lighting(material, light, point, eye_vector, normal_vector, in_shadow) ==
    LET effective_color == multiply_color(material.color, light.intensity)
        ambient == multiply_scalar(effective_color, material.ambient)
        light_vector == normalize(VSub(light.position, point))
        light_dot_normal == dot(light_vector, normal_vector)
        reflect_vector == reflect(VNeg(light_vector), normal_vector)
        reflect_dot_eye == dot(reflect_vector, eye_vector)
        diffuse ==
            IF light_dot_normal < 0 THEN BLACK
            ELSE multiply_scalar(multiply_scalar(effective_color, material.diffuse),
                                 light_dot_normal)
        specular ==
            IF light_dot_normal < 0 THEN BLACK
            ELSE IF reflect_dot_eye <= 0 THEN BLACK
            ELSE LET factor == FPow(reflect_dot_eye, material.shininess \div ONE)
                 IN  multiply_scalar(multiply_scalar(light.intensity, material.specular),
                                     factor)
    IN  IF in_shadow THEN ambient
        ELSE CAdd(CAdd(ambient, diffuse), specular)

----------------------------------------------------------------------------
(* World *)

World(light, objects) == [light |-> light, objects |-> objects]

\* The records of every object in turn, objects[k..] appended to acc
RECURSIVE IntersectAll(_, _, _, _)
IntersectAll(objects, r, k, acc) ==
    IF k > Len(objects) THEN acc
    ELSE IntersectAll(objects, r, k + 1, acc \o intersect(objects[k], r))

\* x put into the sorted sequence s after every record that is not greater
RECURSIVE InsertByT(_, _)
InsertByT(s, x) ==
    IF s = <<>> THEN <<x>>
    ELSE IF s[Len(s)].t <= x.t THEN Append(s, x)
    ELSE Append(InsertByT(SubSeq(s, 1, Len(s) - 1), x), s[Len(s)])

\* result.sort_by(|a, b| a.t.partial_cmp(&b.t).unwrap()): a stable sort
RECURSIVE SortByT(_, _, _)
SortByT(s, k, acc) ==
    IF k > Len(s) THEN acc ELSE SortByT(s, k + 1, InsertByT(acc, s[k]))

\* No sort at all
SortNone(s) == s

sort_by_t(s) == SortByT(s, 1, <<>>)

\* World::intersect with a sort that puts equal t in the reverse order
WorldIntersectTiesReversed(w, r) ==
    LET all == IntersectAll(w.objects, r, 1, <<>>)
    IN  sort_by_t([k \in 1..Len(all) |-> all[Len(all) + 1 - k]])

\* World::intersect
world_intersect(w, r) == sort_by_t(IntersectAll(w.objects, r, 1, <<>>))

\* The ray World::is_shadowed casts from point toward the light
shadow_ray(w, point) ==
    Ray(point, normalize(VSub(unwrap(w.light).position, point)))

\* is_shadowed without the comparison against the distance to the light
IsShadowedAnyHit(w, point) ==
    hit(world_intersect(w, shadow_ray(w, point))) # None

\* World::is_shadowed
is_shadowed(w, point) ==
    LET vector == VSub(unwrap(w.light).position, point)
        distance == magnitude(vector)
        h == hit(world_intersect(w, shadow_ray(w, point)))
    IN  h # None /\ unwrap(h).t < distance

\* shade_hit asking for the shadow at the hit point itself
ShadowQueryAtPoint(computations) == computations.point

\* The point World::shade_hit hands to is_shadowed
shadow_query_point(computations) == computations.over_point

\* The point World::shade_hit hands to lighting
lighting_point(computations) == computations.point

\* shade_hit that answers black, not a panic, when the world has no light
ShadeHitBlackWithoutLight(w, computations) ==
    IF w.light = None THEN BLACK
    ELSE LET shadowed == is_shadowed(w, shadow_query_point(computations))
         IN  lighting(computations.object.material, unwrap(w.light),
                      lighting_point(computations), computations.eye_vector,
                      computations.normal_vector, shadowed)

\* World::shade_hit; Panic stands for the panic on a world without a light
shade_hit(w, computations) ==
    IF w.light = None THEN Panic
    ELSE LET shadowed == is_shadowed(w, shadow_query_point(computations))
         IN  lighting(computations.object.material, unwrap(w.light),
                      lighting_point(computations), computations.eye_vector,
                      computations.normal_vector, shadowed)

\* color_at shading the first record of the sorted list instead of the hit
ColorAtFirst(w, r) ==
    LET all == world_intersect(w, r)
    IN  IF all = <<>> THEN BLACK
        ELSE shade_hit(w, prepare_computations(all[1], r))

\* World::color_at
color_at(w, r) ==
    LET h == hit(world_intersect(w, r))
    IN  IF h = None THEN BLACK
        ELSE shade_hit(w, prepare_computations(unwrap(h), r))

----------------------------------------------------------------------------
(* Equality of the data model: the impl PartialEq blocks *)

\* impl PartialEq for Color
ColorEq(a, b) ==
    approximately(a.r, b.r) /\ approximately(a.g, b.g) /\ approximately(a.b, b.b)

\* impl PartialEq for Material
MaterialEq(a, b) ==
    /\ ColorEq(a.color, b.color)
    /\ approximately(a.ambient, b.ambient)
    /\ approximately(a.diffuse, b.diffuse)
    /\ approximately(a.specular, b.specular)
    /\ approximately(a.shininess, b.shininess)

\* impl PartialEq for PointLight
PointLightEq(a, b) ==
    Vector3Eq(a.position, b.position) /\ ColorEq(a.intensity, b.intensity)

\* impl PartialEq for Sphere: the ids
SphereEq(a, b) == a.id = b.id

\* local_eq with both conditions asked for
LocalEqBoth(a, b) ==
    MaterialEq(a.material, b.material) /\ MatrixEq(a.transform, b.transform)

\* Plane::local_eq (and that of the TestShape of shapes.rs)
local_eq(a, b) ==
    MaterialEq(a.material, b.material) \/ MatrixEq(a.transform, b.transform)

\* impl PartialEq for dyn Shape: self.local_eq(other)
ShapeEq(a, b) == local_eq(a, b)

\* impl PartialEq for Intersection: self.t == other.t on the floats
\* themselves, and the shapes as dyn Shape
IntersectionEq(a, b) == a.t = b.t /\ ShapeEq(a.object, b.object)

----------------------------------------------------------------------------
(* Canvas and Camera *)

\* canvas::new: width x height pixels, all black; pixels[x][y]
CanvasNew(width, height) ==
    [width |-> width, height |-> height,
     pixels |-> [x \in 0..(width - 1) |-> [y \in 0..(height - 1) |-> BLACK]]]

\* write_pixel with the two indices of pixels exchanged
WritePixelTransposed(canvas, x, y, color) ==
    IF x < 0 \/ y < 0 \/ x >= canvas.width \/ y >= canvas.height THEN canvas
    ELSE IF y >= canvas.width \/ x >= canvas.height THEN canvas
    ELSE [canvas EXCEPT !.pixels[y][x] = color]

\* Canvas::write_pixel: a position off the canvas is ignored
write_pixel(canvas, x, y, color) ==
    IF x < 0 \/ y < 0 \/ x >= canvas.width \/ y >= canvas.height THEN canvas
    ELSE [canvas EXCEPT !.pixels[x][y] = color]

\* ray_tracer_lib's Canvas::new: pixels[y][x]
LibCanvasNew(width, height) ==
    [width |-> width, height |-> height,
     pixels |-> [y \in 0..(height - 1) |-> [x \in 0..(width - 1) |-> BLACK]]]

\* ray_tracer_lib's Canvas::write_pixel: x and y are usize, and the
\* indexing panics off the canvas
LibWritePixel(canvas, x, y, color) ==
    IF y >= canvas.height \/ x >= canvas.width THEN Panic
    ELSE [canvas EXCEPT !.pixels[y][x] = color]

\* pi / 2 and pi / 3, the fields of view of the repository's cameras
PI_2 == 1570796

PI_3 == 1047198

\* (field_of_view / 2.).tan() for those fields of view
half_view_of(field_of_view) == IF field_of_view = PI_2 THEN ONE ELSE 577350

\* Camera::new without the branch on the aspect ratio: the width always
\* takes half_view
CameraNewWidthFirst(hsize, vsize, field_of_view) ==
    LET half_view == half_view_of(field_of_view)
        aspect_ratio == FDiv(hsize * ONE, vsize * ONE)
        half_width == half_view
        half_height == FDiv(half_view, aspect_ratio)
    IN  [hsize |-> hsize, vsize |-> vsize, field_of_view |-> field_of_view,
         transform |-> identity_4x4,
         pixel_size |-> FDiv(FMul(half_width, 2 * ONE), hsize * ONE),
         half_width |-> half_width, half_height |-> half_height]

\* Camera::new
CameraNew(hsize, vsize, field_of_view) ==
    LET half_view == half_view_of(field_of_view)
        aspect_ratio == FDiv(hsize * ONE, vsize * ONE)
        half_width == IF aspect_ratio >= ONE THEN half_view
                      ELSE FMul(half_view, aspect_ratio)
        half_height == IF aspect_ratio >= ONE THEN FDiv(half_view, aspect_ratio)
                       ELSE half_view
    IN  [hsize |-> hsize, vsize |-> vsize, field_of_view |-> field_of_view,
         transform |-> identity_4x4,
         pixel_size |-> FDiv(FMul(half_width, 2 * ONE), hsize * ONE),
         half_width |-> half_width, half_height |-> half_height]

\* ray_for_pixel with the view transform in the place of its inverse
RayForPixelByTransform(c, px, py) ==
    LET xoffset == FMul(px * ONE + HALF, c.pixel_size)
        yoffset == FMul(py * ONE + HALF, c.pixel_size)
        world_x == c.half_width - xoffset
        world_y == c.half_height - yoffset
        pixel == multiply_vector3(c.transform, Vector3(world_x, world_y, -ONE))
        origin == multiply_vector3(c.transform, Vector3(0, 0, 0))
    IN  Ray(origin, normalize(VSub(pixel, origin)))

\* Camera::ray_for_pixel
ray_for_pixel(c, px, py) ==
    LET xoffset == FMul(px * ONE + HALF, c.pixel_size)
        yoffset == FMul(py * ONE + HALF, c.pixel_size)
        world_x == c.half_width - xoffset
        world_y == c.half_height - yoffset
        pixel == multiply_vector3(inverse(c.transform), Vector3(world_x, world_y, -ONE))
        origin == multiply_vector3(inverse(c.transform), Vector3(0, 0, 0))
    IN  Ray(origin, normalize(VSub(pixel, origin)))

\* The loops of Camera::render in the other order, x outside and y inside
RenderNextColumnMajor(c, at) ==
    IF at.y + 1 < c.vsize THEN [y |-> at.y + 1, x |-> at.x]
    ELSE IF at.x + 1 < c.hsize THEN [y |-> 0, x |-> at.x + 1]
    ELSE [y |-> c.vsize, x |-> 0]

\* The loops of Camera::render: the pixel after (at.x, at.y), y outside and
\* x inside; y = vsize when both loops are done
render_next(c, at) ==
    IF at.x + 1 < c.hsize THEN [y |-> at.y, x |-> at.x + 1]
    ELSE [y |-> at.y + 1, x |-> 0]

----------------------------------------------------------------------------
(* The encoders: ppm.rs and png_encoder.rs *)

\* num::clamp
clamp(value, min, max) ==
    IF value < min THEN min ELSE IF value > max THEN max ELSE value

\* f64::ceil, as an integer
ceil(x) == -((-x) \div ONE)

\* f64 as u8: the cast saturates
as_u8(n) == IF n < 0 THEN 0 ELSE IF n > 255 THEN 255 ELSE n

\* The conversion with the fraction cut off, not rounded up
F64ToPpmPixelFloor(value) ==
    as_u8(FMul(clamp(value, 0, ONE), 255 * ONE) \div ONE)

\* ppm::f64_to_ppm_pixel
f64_to_ppm_pixel(value) ==
    as_u8(ceil(FMul(clamp(value, 0, ONE), 255 * ONE)))

\* png_encoder::convert_rbg_value_to_byte
convert_rbg_value_to_byte(value) ==
    as_u8(ceil(FMul(clamp(value, 0, ONE), 255 * ONE)))

\* ppm::color_to_ppm_pixel
color_to_ppm_pixel(color) ==
    ToString(f64_to_ppm_pixel(color.r)) \o " "
        \o ToString(f64_to_ppm_pixel(color.g)) \o " "
        \o ToString(f64_to_ppm_pixel(color.b))

\* ppm::ppm_header.  A text is the sequence of its lines, each with the
\* newline that ends it
ppm_header(canvas) ==
    <<"P3\n",
      ToString(canvas.width) \o " " \o ToString(canvas.height) \o "\n",
      "255\n">>

\* canvas.pixels.iter().flat_map(|r| r.iter()) from position (i, j) on:
\* the vectors of pixels one after the other, each from its first element
RECURSIVE FlatMap(_, _, _)
FlatMap(pixels, i, j) ==
    IF i \notin DOMAIN pixels THEN <<>>
    ELSE IF j \notin DOMAIN pixels[i] THEN FlatMap(pixels, i + 1, 0)
    ELSE <<pixels[i][j]>> \o FlatMap(pixels, i, j + 1)

\* ppm::ppm_pixel_data
ppm_pixel_data(canvas) ==
    LET colors == FlatMap(canvas.pixels, 0, 0)
    IN  [k \in 1..Len(colors) |-> color_to_ppm_pixel(colors[k]) \o "\n"]

\* ppm::canvas_to_ppm
canvas_to_ppm(canvas) == ppm_header(canvas) \o ppm_pixel_data(canvas)

\* world::default_world
default_world ==
    LET light == PointLight(Vector3(-10 * ONE, 10 * ONE, -10 * ONE), WHITE)
        material == Material(Color(8 * (ONE \div 10), ONE, 6 * (ONE \div 10)),
                             ONE \div 10, 7 * (ONE \div 10), 2 * (ONE \div 10), 200 * ONE)
        s1 == SphereNew(1, identity_4x4, material)
        s2 == SphereNew(2, scaling(Vector3(HALF, HALF, HALF)), MaterialNew)
    IN  World(Some(light), <<s1, s2>>)

----------------------------------------------------------------------------
(* Bounds of the checked inputs *)

\* Records in a collection handed to hit
MaxLen == 3

\* The t of such a record is k / 2 for k in -MaxT..MaxT
MaxT == 2

\* Shapes in a world
MaxObjects == 2

\* Ray origins and query points are (0, j / 2, k) for j in 0..MaxY and
\* k in -MaxZ..MaxZ
MaxY == 2

MaxZ == 2

\* Nearly parallel rays have direction.y = k / 1000000 for k in
\* -MaxTilt..MaxTilt; EPSILON is 10 / 1000000
MaxTilt == 11

\* The matrices of the matrix checks are built from coefficients in 0..MaxCoef
MaxCoef == 3

\* Largest canvas width and height of a rendered camera
MaxSize == 3

\* Largest number of workers of a parallel render
MaxWorkers == 2

\* Most calls of intersect and normal_at on one shape
MaxCalls == 2

\* Largest difference, in units of the model (1e-6), between two compared floats
MaxDelta == 12

----------------------------------------------------------------------------
(* Hit selection: Intersections::new(xs).hit() on every small collection *)

unit_sphere(id) == SphereNew(id, identity_4x4, MaterialNew)

HitRecords ==
    {Intersection(k * HALF, unit_sphere(id)) : k \in (-MaxT)..MaxT, id \in 1..2}

HitInputs == UNION {[1..n -> HitRecords] : n \in 0..MaxLen}

InitHit ==
    /\ world = World(None, <<>>)
    /\ ray = None
    /\ xs \in HitInputs
    /\ op = "init"
    /\ ret = None
    /\ camera = None
    /\ image = None
    /\ pc = None

Hit ==
    /\ op = "init"
    /\ op' = "hit"
    /\ ret' = hit(xs)
    /\ UNCHANGED <<world, ray, xs>>
    /\ UNCHANGED <<camera, image, pc>>

NextHit == Hit

SpecHit == InitHit /\ [][NextHit]_vars

\* The positions of the records with t >= 0
NonNegative(s) == {i \in 1..Len(s) : s[i].t >= 0}

\* C1: hit returns a record of the collection whose t is the least t >= 0
\* in it (0 included), and None exactly when no record has t >= 0; a record
\* with t < 0 is never returned.
HitIsLeastNonNegative ==
    op = "hit" =>
        /\ (ret = None) <=> (NonNegative(xs) = {})
        /\ ret # None =>
              /\ unwrap(ret).t >= 0
              /\ \E i \in NonNegative(xs) : xs[i] = unwrap(ret)
              /\ \A j \in NonNegative(xs) : unwrap(ret).t <= xs[j].t

\* A hit at t = 0 that is neither the first nor the last record, with a
\* negative record before it.
HitWitness ==
    /\ op = "hit"
    /\ Len(xs) = 3
    /\ xs[1].t < 0
    /\ xs[2].t = 0
    /\ xs[3].t > 0
    /\ ret = Some(xs[2])

----------------------------------------------------------------------------
(* World queries: intersect, color_at, is_shadowed and shade_hit on small   *)
(* scenes                                                                  *)

\* The shapes a scene is built from: the two spheres of default_world, a
\* unit sphere moved to (0, 0, 3) and a floor plane at y = -1.
Catalogue ==
    <<default_world.objects[1],
      default_world.objects[2],
      SphereNew(3, translation(Vector3(0, 0, 3 * ONE)), MaterialNew),
      PlaneNew(4, translation(Vector3(0, -ONE, 0)), MaterialNew)>>

\* No light, the light of default_world, a light close to the shapes
Lights ==
    {None,
     default_world.light,
     Some(PointLight(Vector3(0, 0, -3 * HALF), WHITE))}

\* Sequences of up to MaxObjects different shapes of the catalogue
ObjectLists ==
    {s \in UNION {[1..n -> 1..Len(Catalogue)] : n \in 0..MaxObjects} :
        \A i, j \in 1..Len(s) : i # j => s[i] # s[j]}

Worlds ==
    {World(l, [i \in 1..Len(s) |-> Catalogue[s[i]]]) : l \in Lights, s \in ObjectLists}

\* A grid of points in the plane x = 0
Points == {Vector3(0, j * HALF, k * ONE) : j \in 0..MaxY, k \in (-MaxZ)..MaxZ}

\* Unit directions: along the axes of the plane x = 0, and one diagonal
Directions ==
    {Vector3(0, 0, ONE), Vector3(0, 0, -ONE), Vector3(0, ONE, 0),
     normalize(Vector3(0, -ONE, ONE))}

\* The rays of the repository's world tests, from (0, 0, -5) along +z and
\* along +y, and every ray from the grid
Rays ==
    {Ray(Vector3(0, 0, -5 * ONE), Vector3(0, 0, ONE)),
     Ray(Vector3(0, 0, -5 * ONE), Vector3(0, ONE, 0))}
      \cup {Ray(o, d) : o \in Points, d \in Directions}

InitWorld ==
    /\ world \in Worlds
    /\ ray = None
    /\ xs = <<>>
    /\ op = "init"
    /\ ret = None
    /\ camera = None
    /\ image = None
    /\ pc = None

\* world.intersect(&ray)
WorldIntersect ==
    /\ op = "init"
    /\ \E r \in Rays :
          /\ ray' = Some(r)
          /\ xs' = world_intersect(world, r)
    /\ op' = "intersect"
    /\ UNCHANGED <<world, ret>>
    /\ UNCHANGED <<camera, image, pc>>

\* world.color_at(ray)
ColorAt ==
    /\ op = "init"
    /\ \E r \in Rays :
          /\ ray' = Some(r)
          /\ ret' = color_at(world, r)
    /\ op' = "color_at"
    /\ UNCHANGED <<world, xs>>
    /\ UNCHANGED <<camera, image, pc>>

\* world.is_shadowed(&point), on a world with a light
IsShadowed ==
    /\ op = "init"
    /\ world.light # None
    /\ \E p \in Points :
          /\ p # unwrap(world.light).position
          /\ ret' = [point |-> p, shadowed |-> is_shadowed(world, p)]
    /\ op' = "is_shadowed"
    /\ UNCHANGED <<world, ray, xs>>
    /\ UNCHANGED <<camera, image, pc>>

NextWorld == WorldIntersect \/ ColorAt \/ IsShadowed

SpecWorld == InitWorld /\ [][NextWorld]_vars

\* The records of shape k of the world for ray r, computed shape by shape
PerShape(w, r, k) == intersect(w.objects[k], r)

\* Every record any shape of the world has for ray r
AllRecords(w, r) ==
    {PerShape(w, r, k)[j] : <<k, j>> \in
        {p \in (1..Len(w.objects)) \X (1..2) : p[2] <= Len(PerShape(w, r, p[1]))}}

RECURSIVE SumOfCounts(_, _, _)
SumOfCounts(w, r, k) ==
    IF k > Len(w.objects) THEN 0
    ELSE Len(PerShape(w, r, k)) + SumOfCounts(w, r, k + 1)

TsOf(s) == [i \in 1..Len(s) |-> s[i].t]

TestRay == Ray(Vector3(0, 0, -5 * ONE), Vector3(0, 0, ONE))

\* C3: World::intersect returns every record of every shape (as many as the
\* shapes have together, each shape's records all present) in non-decreasing
\* order of t; the default world and the ray from (0,0,-5) along +z give
\* t = 4, 4.5, 5.5, 6.
WorldIntersectCompleteAndSorted ==
    op = "intersect" =>
        /\ Len(xs) = SumOfCounts(world, unwrap(ray), 1)
        /\ \A k \in 1..Len(world.objects) :
              SelectSeq(xs, LAMBDA x : x.object = world.objects[k])
                = PerShape(world, unwrap(ray), k)
        /\ \A i \in 1..(Len(xs) - 1) : xs[i].t <= xs[i + 1].t
        /\ (world = default_world /\ ray = Some(TestRay)) =>
              TsOf(xs) = <<4 * ONE, 9 * HALF, 11 * HALF, 6 * ONE>>

\* The default world under the test ray: four records, which the unsorted
\* concatenation would give as 4, 6, 4.5, 5.5.
WorldIntersectWitness ==
    /\ op = "intersect"
    /\ world = default_world
    /\ ray = Some(TestRay)
    /\ Len(xs) = 4
    /\ PerShape(world, TestRay, 1)[2].t > PerShape(world, TestRay, 2)[1].t

\* The records with the least t >= 0 among a set of records
Nearest(records) ==
    {i \in records : i.t >= 0 /\ \A j \in records : j.t >= 0 => i.t <= j.t}

\* C2: color_at returns black when no record of the ray has t >= 0, and
\* otherwise the shading of a record with the least t >= 0.
ColorAtShadesNearest ==
    op = "color_at" =>
        LET r == unwrap(ray)
            nearest == Nearest(AllRecords(world, r))
        IN  IF nearest = {} THEN ret = BLACK
            ELSE \E i \in nearest : ret = shade_hit(world, prepare_computations(i, r))

\* A lit ray that starts inside a shape: there are records behind the origin
\* and records farther along than the one shaded.
ColorAtWitness ==
    /\ op = "color_at"
    /\ ret # BLACK
    /\ ret # Panic
    /\ \E i, j \in AllRecords(world, unwrap(ray)) :
          /\ i.t < 0
          /\ j.t > 0
          /\ j \notin Nearest(AllRecords(world, unwrap(ray)))

\* C4: is_shadowed(p) is true exactly when some shape meets the ray from p
\* toward the light at a t with 0 <= t < distance(p, light).
IsShadowedExact ==
    op = "is_shadowed" =>
        LET light == unwrap(world.light)
            vector == VSub(light.position, ret.point)
            distance == magnitude(vector)
            r == Ray(ret.point, normalize(vector))
        IN  ret.shadowed <=>
                \E i \in AllRecords(world, r) : i.t >= 0 /\ i.t < distance

\* A point that is not shadowed although a shape lies on the ray toward the
\* light, beyond the light.
IsShadowedWitness ==
    /\ op = "is_shadowed"
    /\ ~ret.shadowed
    /\ LET light == unwrap(world.light)
           vector == VSub(light.position, ret.point)
       IN  \E i \in AllRecords(world, Ray(ret.point, normalize(vector))) :
              i.t >= magnitude(vector)

----------------------------------------------------------------------------
(* Shading: phong_lighting::lighting on small inputs *)

\* Material::new and the material of the outer sphere of default_world
Materials == {MaterialNew, default_world.objects[1].material}

\* The light positions of the repository's lighting tests, white and tinted
LightingLights ==
    {PointLight(pos, c) :
        pos \in {Vector3(0, 0, -10 * ONE), Vector3(0, 10 * ONE, -10 * ONE),
                 Vector3(0, 0, 10 * ONE)},
        c \in {WHITE, Color(ONE, HALF, 0)}}

EyeVectors ==
    {Vector3(0, 0, -ONE), Vector3(0, 0, ONE),
     normalize(Vector3(0, ONE, -ONE)), normalize(Vector3(0, -ONE, -ONE))}

NormalVectors == {Vector3(0, 0, -ONE), Vector3(0, ONE, 0)}

InitLighting ==
    /\ world = World(None, <<>>)
    /\ ray = None
    /\ xs = <<>>
    /\ op = "init"
    /\ ret = None
    /\ camera = None
    /\ image = None
    /\ pc = None

\* lighting(&material, &light, &point, &eye_vector, &normal_vector, in_shadow)
Lighting ==
    /\ op = "init"
    /\ \E material \in Materials, light \in LightingLights, point \in Points,
          eye_vector \in EyeVectors, normal_vector \in NormalVectors,
          in_shadow \in BOOLEAN :
          ret' = [material |-> material, light |-> light, point |-> point,
                  eye_vector |-> eye_vector, normal_vector |-> normal_vector,
                  in_shadow |-> in_shadow,
                  color |-> lighting(material, light, point, eye_vector,
                                     normal_vector, in_shadow)]
    /\ op' = "lighting"
    /\ UNCHANGED <<world, ray, xs>>
    /\ UNCHANGED <<camera, image, pc>>

NextLighting == Lighting

SpecLighting == InitLighting /\ [][NextLighting]_vars

\* The three terms of the Phong reference for a call a
PhongEffective(a) == multiply_color(a.material.color, a.light.intensity)

PhongAmbient(a) == multiply_scalar(PhongEffective(a), a.material.ambient)

PhongLightVector(a) == normalize(VSub(a.light.position, a.point))

PhongLightDotNormal(a) == dot(PhongLightVector(a), a.normal_vector)

PhongDiffuse(a) ==
    multiply_scalar(multiply_scalar(PhongEffective(a), a.material.diffuse),
                    PhongLightDotNormal(a))

PhongReflectDotEye(a) ==
    LET v == VNeg(PhongLightVector(a))
        n == a.normal_vector
    IN  dot(VSub(v, VMul(VMul(n, 2 * ONE), dot(v, n))), a.eye_vector)

PhongSpecular(a) ==
    multiply_scalar(multiply_scalar(a.light.intensity, a.material.specular),
                    FPow(PhongReflectDotEye(a), a.material.shininess \div ONE))

HeadOn(a) ==
    /\ a.material = MaterialNew
    /\ a.light = PointLight(Vector3(0, 0, -10 * ONE), WHITE)
    /\ a.point = Vector3(0, 0, 0)
    /\ a.eye_vector = Vector3(0, 0, -ONE)
    /\ a.normal_vector = Vector3(0, 0, -ONE)

\* C5: lighting is the Phong reference: ambient alone when in shadow or when
\* the light is behind the surface, ambient + diffuse when the reflection
\* points away from the eye, else ambient + diffuse + specular, unclamped;
\* the default material lit head-on from (0,0,-10) gives (1.9,1.9,1.9) and
\* (0.1,0.1,0.1) in shadow.
LightingIsPhong ==
    op = "lighting" =>
        /\ ret.color =
              IF ret.in_shadow \/ PhongLightDotNormal(ret) < 0
              THEN PhongAmbient(ret)
              ELSE IF PhongReflectDotEye(ret) <= 0
              THEN CAdd(PhongAmbient(ret), PhongDiffuse(ret))
              ELSE CAdd(CAdd(PhongAmbient(ret), PhongDiffuse(ret)), PhongSpecular(ret))
        /\ HeadOn(ret) =>
              ret.color = IF ret.in_shadow
                          THEN Color(ONE \div 10, ONE \div 10, ONE \div 10)
                          ELSE Color(19 * (ONE \div 10), 19 * (ONE \div 10),
                                     19 * (ONE \div 10))

\* A call in shadow whose unshadowed result would carry diffuse and specular
\* light above 1.
LightingWitness ==
    /\ op = "lighting"
    /\ ret.in_shadow
    /\ PhongLightDotNormal(ret) > 0
    /\ PhongReflectDotEye(ret) > 0
    /\ PhongSpecular(ret).r > 0
    /\ CAdd(PhongAmbient(ret), PhongDiffuse(ret)).r > ONE \div 2
    /\ ret.color = PhongAmbient(ret)

----------------------------------------------------------------------------
(* Shading a hit: prepare_computations, then World::shade_hit *)

\* The surface normal at p before normalisation; the zero vector has no
\* direction (NaN in f64)
raw_normal(shape, p) ==
    multiply_vector(transpose(shape.inverse_transform),
                    local_normal_at(shape, multiply_point(shape.inverse_transform, p)))

\* The records Intersection::new can make for a shape and a ray: those of
\* intersect and, for a ray from the grid, t = k / 2 for k in -MaxT..MaxT
RecordsFor(shape, r) ==
    {Intersection(t, shape) :
        t \in {x.t : x \in {intersect(shape, r)[j] : j \in 1..Len(intersect(shape, r))}}
                \cup IF r.origin \in Points THEN {k * HALF : k \in (-MaxT)..MaxT}
                     ELSE {}}

\* default_world, the far sphere and the plane under a close light, and a
\* world without a light
ShadeWorlds ==
    {default_world,
     World(Some(PointLight(Vector3(0, HALF \div 2, -3 * HALF), WHITE)),
           <<Catalogue[3], Catalogue[4]>>),
     World(None, <<Catalogue[1]>>)}

InitShade ==
    /\ world \in ShadeWorlds
    /\ ray = None
    /\ xs = <<>>
    /\ op = "init"
    /\ ret = None
    /\ camera = None
    /\ image = None
    /\ pc = None

\* intersection.prepare_computations(ray)
PrepareComputations ==
    /\ op = "init"
    /\ \E r \in Rays, k \in 1..Len(world.objects) :
          \E i \in RecordsFor(world.objects[k], r) :
              /\ magnitude(raw_normal(i.object, position(r, i.t))) # 0
              /\ ray' = Some(r)
              /\ xs' = <<i>>
              /\ ret' = prepare_computations(i, r)
    /\ op' = "prepare_computations"
    /\ UNCHANGED world
    /\ UNCHANGED <<camera, image, pc>>

\* world.shade_hit(computations); shadow_ray and lit_at record the arguments
\* of the shadow query and of lighting. A hit at the position of the light
\* has no direction to the light (NaN in f64) and is left out.
ShadeHit ==
    /\ op = "prepare_computations"
    /\ world.light # None => ret.point # unwrap(world.light).position
    /\ ret' = IF world.light = None
              THEN [computations |-> ret, color |-> shade_hit(world, ret)]
              ELSE [computations |-> ret,
                    shadow_ray |-> shadow_ray(world, shadow_query_point(ret)),
                    lit_at |-> lighting_point(ret),
                    color |-> shade_hit(world, ret)]
    /\ op' = "shade_hit"
    /\ UNCHANGED <<world, ray, xs>>
    /\ UNCHANGED <<camera, image, pc>>

NextShade == PrepareComputations \/ ShadeHit

SpecShade == InitShade /\ [][NextShade]_vars

\* C6: prepare_computations returns point = ray.position(t), eye_vector =
\* -ray.direction, the t and the shape of the intersection; is_inside holds
\* exactly when normal_at(point) . eye_vector < 0, and then the normal is the
\* negated surface normal; so normal_vector . eye_vector >= 0 always.
PrepareComputationsContract ==
    op = "prepare_computations" =>
        LET i == xs[1]
            r == unwrap(ray)
            n == normal_at(i.object, ret.point)
        IN  /\ ret.point = VAdd(r.origin, VMul(r.direction, i.t))
            /\ ret.eye_vector = Vector3(-r.direction.x, -r.direction.y, -r.direction.z)
            /\ ret.t = i.t
            /\ ret.object = i.object
            /\ ret.is_inside <=> (dot(n, ret.eye_vector) < 0)
            /\ ret.is_inside => ret.normal_vector = Vector3(-n.x, -n.y, -n.z)
            /\ ~ret.is_inside => ret.normal_vector = n
            /\ dot(ret.normal_vector, ret.eye_vector) >= 0

\* A hit from inside a shape whose surface normal was negated
PrepareComputationsWitness ==
    /\ op = "prepare_computations"
    /\ ret.is_inside
    /\ ret.t > 0
    /\ ret.normal_vector # normal_at(ret.object, ret.point)
    /\ dot(ret.normal_vector, ret.eye_vector) > 0

\* C7: the shadow query of shade_hit starts at over_point = point +
\* normal_vector * EPSILON (the normal after the inside flip), never at the
\* hit point, while lighting is evaluated at the hit point; the offset is
\* toward the eye.
ShadowQueryFromOverPoint ==
    (op = "shade_hit" /\ world.light # None) =>
        LET c == ret.computations
            over == VAdd(c.point, VMul(c.normal_vector, EPSILON))
            offset == VSub(ret.shadow_ray.origin, c.point)
        IN  /\ ret.shadow_ray.origin = over
            /\ ret.shadow_ray.origin # c.point
            /\ ret.lit_at = c.point
            /\ offset = VMul(c.normal_vector, EPSILON)
            /\ dot(c.normal_vector, c.eye_vector) >= 0
            /\ dot(Vector3(offset.x * (ONE \div EPSILON), offset.y * (ONE \div EPSILON),
                           offset.z * (ONE \div EPSILON)), c.eye_vector) >= 0
            /\ ret.color = lighting(c.object.material, unwrap(world.light), c.point,
                                    c.eye_vector, c.normal_vector,
                                    is_shadowed(world, over))

\* A hit that is lit from its over_point and would be shadowed by its own
\* surface from the hit point
ShadowQueryWitness ==
    /\ op = "shade_hit"
    /\ world.light # None
    /\ ret.computations.t > 0
    /\ ret.shadow_ray.origin # ret.computations.point
    /\ ~is_shadowed(world, ret.computations.over_point)
    /\ is_shadowed(world, ret.computations.point)

----------------------------------------------------------------------------
(* One shape and one ray: Shape::intersect, Sphere::intersect,
   Plane::local_intersect *)

\* The spheres of the repository's sphere tests (unit, scaled by 2,
\* translated by (5,0,0)), the inner sphere of default_world, and two planes
Shapes ==
    {unit_sphere(1),
     SphereNew(2, scaling(Vector3(2 * ONE, 2 * ONE, 2 * ONE)), MaterialNew),
     SphereNew(3, translation(Vector3(5 * ONE, 0, 0)), MaterialNew),
     default_world.objects[2],
     PlaneNew(5, identity_4x4, MaterialNew),
     Catalogue[4]}

\* Rays from the grid whose direction is not a unit vector
LongAndShortRays ==
    {Ray(o, VMul(d, HALF)) : o \in Points, d \in Directions}
      \cup {Ray(o, Vector3(0, ONE, ONE)) : o \in Points}

\* Rays that start on or just off the shape's plane y = 0 and are parallel to
\* it or nearly so
TiltedRays(shape) ==
    {Ray(multiply_point(shape.transform, Vector3(0, h, 0)), Vector3(0, k, ONE)) :
        h \in {0, ONE \div 100, -(ONE \div 100)}, k \in (-MaxTilt)..MaxTilt}

RaysFor(shape) ==
    Rays \cup LongAndShortRays
         \cup IF shape.kind = "Plane" THEN TiltedRays(shape) ELSE {}

InitShape ==
    /\ \E shape \in Shapes :
          /\ world = World(None, <<shape>>)
          /\ ray \in {Some(r) : r \in RaysFor(shape)}
    /\ xs = <<>>
    /\ op = "init"
    /\ ret = None
    /\ camera = None
    /\ image = None
    /\ pc = None

\* shape.intersect(shape, world_ray); ret keeps the ray local_intersect was
\* given
ShapeIntersect ==
    /\ op = "init"
    /\ xs' = intersect(world.objects[1], unwrap(ray))
    /\ ret' = object_ray_of(world.objects[1], unwrap(ray))
    /\ op' = "intersect"
    /\ UNCHANGED <<world, ray>>
    /\ UNCHANGED <<camera, image, pc>>

NextShape == ShapeIntersect

SpecShape == InitShape /\ [][NextShape]_vars

\* The object-space point the world ray has reached at parameter t
ObjectPointAt(shape, r, t) ==
    multiply_point(shape.inverse_transform, VAdd(r.origin, VMul(r.direction, t)))

\* The point p lies on the shape's surface in object space, to two decimals
OnSurface(shape, p) ==
    IF shape.kind = "Sphere"
    THEN FAbs(dot(p, p) - ONE) <= 1000 * EPSILON
    ELSE FAbs(p.y) <= 1000 * EPSILON

ScaledByTwo(shape) == shape.transform = scaling(Vector3(2 * ONE, 2 * ONE, 2 * ONE))

\* C8: local_intersect is given the world ray moved by the inverse transform
\* (moving it back by the transform gives the world ray, as Vector3 compares
\* for equality, direction not normalised), so each t places the world ray on the shape; the sphere
\* scaled by 2 and the ray from (0,0,-5) along +z give t = 3 and 7, the
\* sphere translated by (5,0,0) gives none.
IntersectUsesInverseTransform ==
    op = "intersect" =>
        LET shape == world.objects[1]
            r == unwrap(ray)
        IN  /\ Vector3Eq(multiply_point(shape.transform, ret.origin), r.origin)
            /\ Vector3Eq(multiply_vector(shape.transform, ret.direction), r.direction)
            /\ xs = local_intersect(shape, ret)
            /\ \A j \in 1..Len(xs) : OnSurface(shape, ObjectPointAt(shape, r, xs[j].t))
            /\ (ScaledByTwo(shape) /\ r = TestRay) =>
                  /\ TsOf(xs) = <<3 * ONE, 7 * ONE>>
                  /\ ret.direction = Vector3(0, 0, HALF)
            /\ (shape.transform = translation(Vector3(5 * ONE, 0, 0)) /\ r = TestRay) =>
                  xs = <<>>

\* The scaled sphere met by a ray of unit direction: the object ray's
\* direction is shorter, and the ts are those of the world ray
IntersectWitness ==
    /\ op = "intersect"
    /\ ScaledByTwo(world.objects[1])
    /\ unwrap(ray) = TestRay
    /\ Len(xs) = 2
    /\ magnitude(ret.direction) < ONE

\* |inverse_transform * origin| < 1: the ray starts strictly inside the sphere
StartsInside(shape, r) ==
    LET o == multiply_point(shape.inverse_transform, r.origin)
    IN  dot(o, o) < ONE

\* C9: a sphere and a ray with a non-zero direction have no record or exactly
\* two, in ascending order of t (equal for a tangent ray), both with the
\* sphere as object; for a ray that starts strictly inside the sphere the
\* first t is negative and the second positive.
SphereIntersectTwoOrNone ==
    (op = "intersect" /\ world.objects[1].kind = "Sphere") =>
        LET shape == world.objects[1]
            r == unwrap(ray)
        IN  /\ Len(xs) \in {0, 2}
            /\ Len(xs) = 2 =>
                  /\ xs[1].t <= xs[2].t
                  /\ xs[1].object = shape
                  /\ xs[2].object = shape
            /\ StartsInside(shape, r) =>
                  /\ Len(xs) = 2
                  /\ xs[1].t < 0
                  /\ xs[2].t > 0

\* A tangent ray: two records with the same t
SphereIntersectWitness ==
    /\ op = "intersect"
    /\ world.objects[1].kind = "Sphere"
    /\ Len(xs) = 2
    /\ xs[1].t = xs[2].t
    /\ ~StartsInside(world.objects[1], unwrap(ray))

\* C10: Plane::local_intersect returns no record when |direction.y| < EPSILON
\* (a ray lying in the plane included), and otherwise exactly one, with
\* t = -origin.y / direction.y and the plane as object.
PlaneIntersectOneOrNone ==
    (op = "intersect" /\ world.objects[1].kind = "Plane") =>
        LET shape == world.objects[1]
            dy == ret.direction.y
            oy == ret.origin.y
        IN  IF dy > -EPSILON /\ dy < EPSILON
            THEN xs = <<>>
            ELSE /\ Len(xs) = 1
                 /\ xs[1].t = FDiv(-oy, dy)
                 /\ FAbs(oy + FMul(xs[1].t, dy)) <= 10 * EPSILON
                 /\ xs[1].object = shape

\* A ray off the plane whose direction.y is exactly EPSILON: one record
PlaneIntersectWitness ==
    /\ op = "intersect"
    /\ world.objects[1].kind = "Plane"
    /\ ret.direction.y = EPSILON
    /\ ret.origin.y # 0
    /\ Len(xs) = 1
    /\ xs[1].t < 0

----------------------------------------------------------------------------
(* Surface normals: Shape::normal_at, Sphere::normal_at *)

\* Offsets and scale factors of the transformed shapes
NormalOffset == Vector3(0, ONE, 0)

NormalScale == Vector3(ONE, HALF, 2 * ONE)

\* No transform, a translation, an uneven scaling, a shearing, and a scaling
\* followed by a translation
NormalTransforms ==
    {identity_4x4,
     translation(NormalOffset),
     scaling(NormalScale),
     shearing(ONE, 0, 0, HALF, 0, 0),
     multiply_4x4(translation(NormalOffset), scaling(NormalScale))}

\* A sphere and a plane under each of the transforms
NormalShapes ==
    {SphereNew(1, t, MaterialNew) : t \in NormalTransforms}
      \cup {PlaneNew(2, t, MaterialNew) : t \in NormalTransforms}

InitNormal ==
    /\ world \in {World(None, <<shape>>) : shape \in NormalShapes}
    /\ ray = None
    /\ xs = <<>>
    /\ op = "init"
    /\ ret = None
    /\ camera = None
    /\ image = None
    /\ pc = None

\* shape.normal_at(world_point); for a sphere also Sphere::normal_at of
\* sphere.rs. A point where the normal is the zero vector is left out.
NormalAt ==
    /\ op = "init"
    /\ \E p \in Points :
          LET shape == world.objects[1]
          IN  /\ magnitude(raw_normal(shape, p)) # 0
              /\ ret' = [point |-> p,
                         normal |-> normal_at(shape, p),
                         sphere_normal |->
                             IF shape.kind = "Sphere" THEN SphereNormalAt(shape, p)
                             ELSE normal_at(shape, p)]
    /\ op' = "normal_at"
    /\ UNCHANGED <<world, ray, xs>>
    /\ UNCHANGED <<camera, image, pc>>

NextNormal == NormalAt

SpecNormal == InitNormal /\ [][NextNormal]_vars

\* The shape's kind with no transform
Untransformed(shape) ==
    IF shape.kind = "Sphere" THEN SphereNew(shape.id, identity_4x4, shape.material)
    ELSE PlaneNew(shape.id, identity_4x4, shape.material)

\* The local normal at the object-space image of world point p
LocalNormalOf(shape, p) ==
    local_normal_at(shape, multiply_vector4(shape.inverse_transform, p, ONE))

\* C11: normal_at is the normalised image, as a direction (w = 0), of the
\* local normal under the transpose of the inverse transform; translating a
\* shape leaves the normal's direction alone (the normal at p is that of the
\* untranslated shape at p minus the offset), and a scaling (sx, sy, sz)
\* turns the local normal (nx, ny, nz) into the direction (nx/sx, ny/sy, nz/sz).
NormalAtContract ==
    op = "normal_at" =>
        LET shape == world.objects[1]
            n == LocalNormalOf(shape, ret.point)
        IN  /\ ret.normal =
                  normalize(multiply_vector4(transpose(shape.inverse_transform), n, 0))
            /\ ret.sphere_normal = ret.normal
            /\ shape.transform = translation(NormalOffset) =>
                  ret.normal = normal_at(Untransformed(shape),
                                         VSub(ret.point, NormalOffset))
            /\ shape.transform = scaling(NormalScale) =>
                  Vector3Eq(ret.normal,
                            normalize(Vector3(FDiv(n.x, NormalScale.x),
                                              FDiv(n.y, NormalScale.y),
                                              FDiv(n.z, NormalScale.z))))

\* A sphere scaled unevenly, at a point where the normal is not along the
\* line from the centre
NormalAtWitness ==
    /\ op = "normal_at"
    /\ world.objects[1].kind = "Sphere"
    /\ world.objects[1].transform = scaling(NormalScale)
    /\ ret.point.y # 0
    /\ ret.point.z # 0
    /\ ~Vector3Eq(ret.normal, normalize(ret.point))

----------------------------------------------------------------------------
(* Matrices: determinant, inverse, and the shapes built on a transform *)

\* The entries of the generated matrices: whole numbers and halves
EntryValues == <<0, ONE, -ONE, HALF, 2 * ONE, -HALF>>

\* The n x n matrix whose entry (r, c) is picked by the coefficients a, b, d
PatternMatrix(n, a, b, d) ==
    Matrix(n, [r \in 0..(n - 1) |-> [c \in 0..(n - 1) |->
        EntryValues[((a * r + b * c + d * r * c + r * r * c + 1) % Len(EntryValues)) + 1]]])

PatternMatrices(n) ==
    {PatternMatrix(n, a, b, d) : a \in 0..MaxCoef, b \in 0..MaxCoef, d \in 0..MaxCoef}

\* Transforms as the scenes use them, and scalings whose determinant is 0,
\* below EPSILON, EPSILON itself and just above it
TransformMatrices ==
    {identity_4x4,
     translation(Vector3(5 * ONE, -3 * ONE, 2 * ONE)),
     scaling(Vector3(2 * ONE, 2 * ONE, 2 * ONE)),
     scaling(Vector3(HALF, ONE, 2 * ONE)),
     shearing(ONE, 0, 0, HALF, 0, 0),
     multiply_4x4(translation(Vector3(0, ONE, 0)), scaling(Vector3(ONE, HALF, 2 * ONE))),
     scaling(Vector3(0, ONE, ONE)),
     scaling(Vector3(ONE \div 100, ONE \div 100, ONE \div 100)),
     scaling(Vector3(-(ONE \div 100), ONE \div 100, ONE \div 100)),
     scaling(Vector3(ONE \div 10, ONE \div 10, ONE \div 1000)),
     scaling(Vector3(ONE \div 10, ONE \div 10, -(ONE \div 1000))),
     scaling(Vector3(ONE \div 10, ONE \div 10, ONE \div 500))}

Matrices4 == PatternMatrices(4) \cup TransformMatrices

\* The second factor of a product that is undone: a transform, or a
\* generated matrix whose inverse six decimals represent without loss
UndoneMatrices ==
    TransformMatrices
      \cup {m \in PatternMatrices(4) :
               /\ inverse(m) # Panic
               /\ multiply_4x4(m, inverse(m)) = identity_4x4
               /\ multiply_4x4(inverse(m), m) = identity_4x4}

InitMatrix ==
    /\ world = World(None, <<>>)
    /\ ray = None
    /\ xs \in {<<m>> : m \in PatternMatrices(2) \cup PatternMatrices(3) \cup Matrices4}
              \cup {<<a, b>> : a \in TransformMatrices, b \in UndoneMatrices}
    /\ op = "init"
    /\ ret = None
    /\ camera = None
    /\ image = None
    /\ pc = None

\* m.determinant()
Determinant ==
    /\ op = "init"
    /\ Len(xs) = 1
    /\ ret' = determinant(xs[1])
    /\ op' = "determinant"
    /\ UNCHANGED <<world, ray, xs>>
    /\ UNCHANGED <<camera, image, pc>>

\* m.inverse() on a 4x4 matrix
Inverse ==
    /\ op = "init"
    /\ Len(xs) = 1
    /\ xs[1].num_rows = 4
    /\ ret' = inverse(xs[1])
    /\ op' = "inverse"
    /\ UNCHANGED <<world, ray, xs>>
    /\ UNCHANGED <<camera, image, pc>>

\* a.multiply_4x4(&b).multiply_4x4(&b.inverse())
MultiplyThenUndo ==
    /\ op = "init"
    /\ Len(xs) = 2
    /\ ret' = IF inverse(xs[2]) = Panic THEN Panic
              ELSE multiply_4x4(multiply_4x4(xs[1], xs[2]), inverse(xs[2]))
    /\ op' = "multiply_then_undo"
    /\ UNCHANGED <<world, ray, xs>>
    /\ UNCHANGED <<camera, image, pc>>

\* Sphere::new(Some(m), None)
NewSphere ==
    /\ op = "init"
    /\ Len(xs) = 1
    /\ xs[1].num_rows = 4
    /\ ret' = SphereNew(1, xs[1], MaterialNew)
    /\ op' = "new"
    /\ UNCHANGED <<world, ray, xs>>
    /\ UNCHANGED <<camera, image, pc>>

\* Plane::new(Some(m), None)
NewPlane ==
    /\ op = "init"
    /\ Len(xs) = 1
    /\ xs[1].num_rows = 4
    /\ ret' = PlaneNew(2, xs[1], MaterialNew)
    /\ op' = "new"
    /\ UNCHANGED <<world, ray, xs>>
    /\ UNCHANGED <<camera, image, pc>>

NextMatrix == Determinant \/ Inverse \/ MultiplyThenUndo \/ NewSphere \/ NewPlane

SpecMatrix == InitMatrix /\ [][NextMatrix]_vars

\* The determinant is within EPSILON of zero
SmallDeterminant(m) == determinant(m) > -EPSILON /\ determinant(m) < EPSILON

\* C12: Matrix::inverse fails, returning no matrix, exactly when
\* |determinant| < EPSILON; Sphere::new and Plane::new invert the transform,
\* so construction fails for exactly those transforms and every shape that
\* exists has an invertible transform and its inverse.
InverseFailsOnSmallDeterminant ==
    /\ op = "inverse" =>
          /\ (ret = Panic) <=> SmallDeterminant(xs[1])
          /\ ret # Panic => ret.num_rows = 4 /\ ret.num_cols = 4
    /\ op = "new" =>
          /\ (ret = Panic) <=> SmallDeterminant(xs[1])
          /\ ret # Panic =>
                /\ ret.transform = xs[1]
                /\ ~SmallDeterminant(ret.transform)
                /\ ret.inverse_transform # Panic
                /\ ret.inverse_transform.num_rows = 4

\* Construction failed on a transform whose determinant is small but not zero
InverseFailsWitness ==
    /\ op = "new"
    /\ ret = Panic
    /\ determinant(xs[1]) # 0
    /\ xs[1] \in TransformMatrices

\* C13: for an invertible 4x4 matrix M, M * inverse(M) is the identity, and
\* for 4x4 A and invertible B, (A * B) * inverse(B) is A, both as Matrix
\* compares for equality; element [c][r] of the inverse is
\* cofactor(r, c) / determinant.
InverseRoundTrip ==
    /\ (op = "inverse" /\ ret # Panic) =>
          /\ MatrixEq(multiply_4x4(xs[1], ret), identity_4x4)
          /\ \A r \in 0..3, c \in 0..3 :
                ret.data[c][r] = FDiv(cofactor(xs[1], r, c), determinant(xs[1]))
    /\ (op = "multiply_then_undo" /\ ret # Panic) => MatrixEq(ret, xs[1])

\* An inverse that is not its own transpose, of a matrix that is not a
\* scaling
InverseRoundTripWitness ==
    /\ op = "inverse"
    /\ ret # Panic
    /\ ret # transpose(ret)
    /\ xs[1] \in PatternMatrices(4)
    /\ ret.data[0][1] # 0
    /\ multiply_4x4(xs[1], ret) # identity_4x4

\* Permutations of 0..n-1
IndexPermutations(n) ==
    {f \in [0..(n - 1) -> 0..(n - 1)] : \A i, j \in 0..(n - 1) : i # j => f[i] # f[j]}

\* +1 for an even permutation, -1 for an odd one
Sign(f, n) ==
    IF Cardinality({p \in (0..(n - 1)) \X (0..(n - 1)) :
                       p[1] < p[2] /\ f[p[1]] > f[p[2]]}) % 2 = 0
    THEN 1 ELSE -1

\* The product of the entries (r, f[r]), r from row up, counted in halves
RECURSIVE HalvesProduct(_, _, _)
HalvesProduct(m, f, row) ==
    IF row = m.num_rows THEN 1
    ELSE (m.data[row][f[row]] \div HALF) * HalvesProduct(m, f, row + 1)

RECURSIVE LeibnizSum(_, _)
LeibnizSum(m, perms) ==
    IF perms = {} THEN 0
    ELSE LET f == CHOOSE g \in perms : TRUE
         IN  Sign(f, m.num_rows) * HalvesProduct(m, f, 0) + LeibnizSum(m, perms \ {f})

\* 2^n
RECURSIVE TwoTo(_)
TwoTo(n) == IF n = 0 THEN 1 ELSE 2 * TwoTo(n - 1)

\* The determinant by the sum over all permutations, for a matrix whose
\* entries are whole numbers of halves
MathDeterminant(m) ==
    LeibnizSum(m, IndexPermutations(m.num_rows)) * (ONE \div TwoTo(m.num_rows))

AllHalves(m) ==
    \A r \in 0..(m.num_rows - 1), c \in 0..(m.num_cols - 1) : m.data[r][c] % HALF = 0

\* C14: for a square matrix of size 2, 3 or 4 the determinant (ad - bc for
\* 2x2, else the first row's elements times their cofactors, a cofactor
\* being the minor negated when r + c is odd) is the mathematical
\* determinant, the signed sum over all permutations.
DeterminantIsMathematical ==
    (op = "determinant" /\ AllHalves(xs[1])) =>
        /\ xs[1].num_rows \in {2, 3, 4}
        /\ ret = MathDeterminant(xs[1])
        /\ \A r \in 0..(xs[1].num_rows - 1), c \in 0..(xs[1].num_rows - 1) :
              xs[1].num_rows > 2 =>
                  /\ minor(xs[1], r, c) = MathDeterminant(submatrix(xs[1], r, c))
                  /\ cofactor(xs[1], r, c) =
                        IF (r + c) % 2 = 1 THEN -minor(xs[1], r, c)
                        ELSE minor(xs[1], r, c)

\* A 4x4 matrix with no zero in its first row and a determinant that is not
\* a whole number
DeterminantWitness ==
    /\ op = "determinant"
    /\ xs[1].num_rows = 4
    /\ AllHalves(xs[1])
    /\ \A c \in 0..3 : xs[1].data[0][c] # 0 /\ minor(xs[1], 0, c) # 0
    /\ ret % ONE # 0
    /\ ret = MathDeterminant(xs[1])

----------------------------------------------------------------------------
(* Ray::transform *)

\* Translations by the grid points other than the origin
RayOffsets == Points \ {Vector3(0, 0, 0)}

\* Scale factors, even and uneven
RayScales ==
    {Vector3(2 * ONE, 2 * ONE, 2 * ONE), Vector3(HALF, HALF, HALF),
     Vector3(2 * ONE, 3 * ONE, 4 * ONE), Vector3(ONE, HALF, -ONE)}

InitRay ==
    /\ world = World(None, <<>>)
    /\ ray \in {Some(r) : r \in Rays \cup LongAndShortRays}
    /\ xs \in {<<translation(v)>> : v \in RayOffsets}
                \cup {<<scaling(v)>> : v \in RayScales}
                \cup {<<shearing(ONE, 0, 0, HALF, 0, 0)>>}
    /\ op = "init"
    /\ ret = None
    /\ camera = None
    /\ image = None
    /\ pc = None

\* ray.transform(&matrix)
TransformRay ==
    /\ op = "init"
    /\ ret' = RayTransform(unwrap(ray), xs[1])
    /\ op' = "transform"
    /\ UNCHANGED <<world, ray, xs>>
    /\ UNCHANGED <<camera, image, pc>>

NextRay == TransformRay

SpecRay == InitRay /\ [][NextRay]_vars

\* Row r of matrix m applied to (v.x, v.y, v.z, w)
Homogeneous(m, r, v, w) ==
    FMul(m.data[r][0], v.x) + FMul(m.data[r][1], v.y) + FMul(m.data[r][2], v.z)
      + FMul(m.data[r][3], w)

\* C15: Ray::transform applies the matrix to the origin with w = 1 and to
\* the direction with w = 0: a translation shifts the origin and leaves the
\* direction as it is, a scaling scales both.
RayTransformPointAndVector ==
    op = "transform" =>
        LET r == unwrap(ray)
            m == xs[1]
        IN  /\ ret.origin = Vector3(Homogeneous(m, 0, r.origin, ONE),
                                    Homogeneous(m, 1, r.origin, ONE),
                                    Homogeneous(m, 2, r.origin, ONE))
            /\ ret.direction = Vector3(Homogeneous(m, 0, r.direction, 0),
                                       Homogeneous(m, 1, r.direction, 0),
                                       Homogeneous(m, 2, r.direction, 0))
            /\ \A v \in RayOffsets :
                  m = translation(v) =>
                      /\ ret.direction = r.direction
                      /\ ret.origin = Vector3(r.origin.x + v.x, r.origin.y + v.y,
                                              r.origin.z + v.z)
            /\ \A v \in RayScales :
                  m = scaling(v) =>
                      /\ ret.origin = Vector3(FMul(v.x, r.origin.x), FMul(v.y, r.origin.y),
                                              FMul(v.z, r.origin.z))
                      /\ ret.direction =
                            Vector3(FMul(v.x, r.direction.x), FMul(v.y, r.direction.y),
                                    FMul(v.z, r.direction.z))

\* A translated ray: the origin has moved, the direction has not
RayTransformWitness ==
    /\ op = "transform"
    /\ xs[1] \in {translation(v) : v \in RayOffsets}
    /\ ret.origin # unwrap(ray).origin
    /\ ret.direction = unwrap(ray).direction
    /\ unwrap(ray).direction.y # 0
    /\ unwrap(ray).direction.z # 0

----------------------------------------------------------------------------
(* Camera::render: the sequential render loop *)

\* The camera of rendering_a_world_with_a_camera looks at the origin from
\* (0, 0, -5); the other one keeps the identity transform of Camera::new
CameraTransforms ==
    {identity_4x4,
     view_transform(Vector3(0, 0, -5 * ONE), Vector3(0, 0, 0), Vector3(0, ONE, 0))}

\* c.transform = t on a new camera
CameraAt(h, v, f, t) == [CameraNew(h, v, f) EXCEPT !.transform = t]

Cameras ==
    {CameraAt(h, v, PI_2, t) : h \in 1..MaxSize, v \in 1..MaxSize, t \in CameraTransforms}
        \cup {CameraAt(h, h, PI_3, identity_4x4) : h \in 1..MaxSize}

\* Worlds with a light: the default world, and a floor under the camera
RenderWorlds ==
    {default_world,
     World(default_world.light, <<Catalogue[4]>>)}

InitRender ==
    /\ world \in RenderWorlds
    /\ camera \in Cameras
    /\ ray = None
    /\ xs = <<>>
    /\ op = "init"
    /\ ret = None
    /\ image = None
    /\ pc = None

\* let mut image = Canvas::new(self.hsize, self.vsize); and the loops start
RenderStart ==
    /\ op = "init"
    /\ image' = CanvasNew(camera.hsize, camera.vsize)
    /\ pc' = [y |-> 0, x |-> 0]
    /\ op' = "render"
    /\ UNCHANGED <<world, ray, xs, ret, camera>>

\* A loop body whose intersect sorts the world's own list of shapes, last
\* shape first, where the code sorts a list of its own
RenderPixelReordersWorld ==
    /\ op = "render"
    /\ pc.y < camera.vsize
    /\ \E r \in {ray_for_pixel(camera, pc.x, pc.y)} :
          \E color \in {color_at(world, r)} :
             /\ image' = write_pixel(image, pc.x, pc.y, color)
             /\ xs' = Append(xs, [x |-> pc.x, y |-> pc.y, color |-> color])
    /\ pc' = render_next(camera, pc)
    /\ world' = [world EXCEPT !.objects =
                    [k \in 1..Len(world.objects) |->
                        world.objects[Len(world.objects) + 1 - k]]]
    /\ UNCHANGED <<ray, op, ret, camera>>

\* One pass of the loop body: let ray = ..; let color = ..; write_pixel.
\* xs logs the calls of write_pixel.  When shade_hit panics the panic
\* unwinds render: its canvas is dropped and nothing is returned
RenderPixel ==
    /\ op = "render"
    /\ pc.y < camera.vsize
    /\ \E r \in {ray_for_pixel(camera, pc.x, pc.y)} :
          \E color \in {color_at(world, r)} :
             IF color = Panic
             THEN /\ image' = None
                  /\ op' = "panicked"
                  /\ UNCHANGED <<xs, pc>>
             ELSE /\ image' = write_pixel(image, pc.x, pc.y, color)
                  /\ xs' = Append(xs, [x |-> pc.x, y |-> pc.y, color |-> color])
                  /\ pc' = render_next(camera, pc)
                  /\ UNCHANGED op
    /\ UNCHANGED <<world, ray, ret, camera>>

\* The loops are done: render returns the image
RenderReturn ==
    /\ op = "render"
    /\ pc.y >= camera.vsize
    /\ ret' = image
    /\ op' = "rendered"
    /\ UNCHANGED <<world, ray, xs, camera, image, pc>>

NextRender == RenderStart \/ RenderPixel \/ RenderReturn

\* A step of render moves its position: op or pc changes.  While render has
\* not ended one of RenderStart, RenderPixel and RenderReturn is enabled
\* (the guards of the last two are complementary), so asking for such a
\* step is asking for a step of NextRender.
RenderRuns ==
    /\ op \in {"init", "render"}
    /\ op' \in {"render", "rendered", "panicked"}
    /\ pc' \in [y : 0..camera.vsize, x : 0..(camera.hsize - 1)]

\* render is a sequential loop that keeps running until it returns
SpecRender == InitRender /\ [][NextRender]_vars /\ WF_<<op, pc>>(RenderRuns)

\* The color render owes pixel (x, y)
PixelColor(x, y) == color_at(world, ray_for_pixel(camera, x, y))

\* The k-th call of write_pixel is for the k-th pixel in row-major order
\* and carries that pixel's color
RowMajorWrites ==
    \A k \in 1..Len(xs) :
        /\ xs[k].x = (k - 1) % camera.hsize
        /\ xs[k].y = (k - 1) \div camera.hsize
        /\ xs[k].y < camera.vsize
        /\ xs[k].color = PixelColor(xs[k].x, xs[k].y)

\* What render returns: every pixel written once, a canvas of the size of
\* the camera holding each pixel's color
RenderResult ==
    /\ Len(xs) = camera.hsize * camera.vsize
    /\ \A x \in 0..(camera.hsize - 1), y \in 0..(camera.vsize - 1) :
           /\ Cardinality({k \in 1..Len(xs) : xs[k].x = x /\ xs[k].y = y}) = 1
           /\ ret.pixels[x][y] = PixelColor(x, y)
    /\ ret.width = camera.hsize
    /\ ret.height = camera.vsize
    /\ DOMAIN ret.pixels = 0..(camera.hsize - 1)
    /\ \A x \in DOMAIN ret.pixels : DOMAIN ret.pixels[x] = 0..(camera.vsize - 1)

\* C16: on a world with a light, render terminates after exactly
\* hsize * vsize calls of write_pixel, one for each pixel, in row-major order
\* (y outer, x inner), each with the color color_at(ray_for_pixel(x, y)), and
\* returns a canvas of width hsize and height vsize.
RenderRowMajorAndTerminates ==
    /\ [](op \in {"render", "rendered"} => RowMajorWrites)
    /\ [](op = "rendered" => RenderResult)
    /\ <>(op = "rendered")

\* A render of a 3 x 2 picture has returned, and the picture is not of one color
RenderWitness ==
    /\ op = "rendered"
    /\ camera.hsize = 3
    /\ camera.vsize = 2
    /\ Len(xs) = 6
    /\ \E j, k \in 1..Len(xs) : xs[j].color # xs[k].color

----------------------------------------------------------------------------
(* The parallel render: the rows of the picture are dealt out to workers
   that write to one canvas.  Worker w of n takes the rows w - 1, w - 1 + n,
   w - 1 + 2n, ... and resolves each of its pixels as render does. *)

\* The first pixel of worker w
worker_first(w) == [y |-> w - 1, x |-> 0]

\* The pixel of a worker after (at.x, at.y), n workers sharing the rows
worker_next(c, n, at) ==
    IF at.x + 1 < c.hsize THEN [y |-> at.y, x |-> at.x + 1]
    ELSE [y |-> at.y + n, x |-> 0]

\* The pixels of a camera's picture
Grid(c) == (0..(c.hsize - 1)) \X (0..(c.vsize - 1))

ParallelCameras ==
    {CameraAt(h, v, PI_2, t) : h \in 1..MaxSize, v \in 1..MaxSize,
                               t \in CameraTransforms \ {identity_4x4}}

\* The workers are not running yet
InitParallel ==
    /\ world = default_world
    /\ camera \in ParallelCameras
    /\ ray = None
    /\ xs = [p \in Grid(camera) |-> <<>>]
    /\ op = "init"
    /\ ret = None
    /\ image = None
    /\ pc \in {[w \in 1..n |-> None] : n \in 1..MaxWorkers}

\* The canvas is made and the workers start
ParallelStart ==
    /\ op = "init"
    /\ image' = CanvasNew(camera.hsize, camera.vsize)
    /\ pc' = [w \in DOMAIN pc |-> worker_first(w)]
    /\ op' = "render"
    /\ UNCHANGED <<world, ray, xs, ret, camera>>

\* Worker w resolves its next pixel and writes it; xs[p] lists the workers
\* that have written pixel p
WorkerPixel(w) ==
    /\ op = "render"
    /\ pc[w].y < camera.vsize
    /\ \E r \in {ray_for_pixel(camera, pc[w].x, pc[w].y)} :
          \E color \in {color_at(world, r)} :
             /\ image' = write_pixel(image, pc[w].x, pc[w].y, color)
             /\ xs' = [xs EXCEPT ![<<pc[w].x, pc[w].y>>] = Append(@, w)]
    /\ pc' = [pc EXCEPT ![w] = worker_next(camera, Cardinality(DOMAIN pc), pc[w])]
    /\ UNCHANGED <<world, ray, op, ret, camera>>

\* Every worker is done: the canvas is returned
ParallelJoin ==
    /\ op = "render"
    /\ \A w \in DOMAIN pc : pc[w].y >= camera.vsize
    /\ ret' = image
    /\ op' = "rendered"
    /\ UNCHANGED <<world, ray, xs, camera, image, pc>>

NextParallel ==
    \/ ParallelStart
    \/ \E w \in DOMAIN pc : WorkerPixel(w)
    \/ ParallelJoin

SpecParallel == InitParallel /\ [][NextParallel]_vars

\* The pixels that worker w has written
WrittenBy(w) == {p \in Grid(camera) : \E k \in 1..Len(xs[p]) : xs[p][k] = w}

\* The canvas of the sequential render, as RenderResult describes it
SequentialCanvas ==
    [width |-> camera.hsize, height |-> camera.vsize,
     pixels |-> [x \in 0..(camera.hsize - 1) |->
                   [y \in 0..(camera.vsize - 1) |-> PixelColor(x, y)]]]

\* C17: in the parallel render, whatever the interleaving of the workers, no
\* pixel is written twice and no two workers write the same pixel; when the
\* render returns every pixel has been written by exactly one worker and the
\* canvas is the one the sequential render of the same camera and world gives.
ParallelRenderIsSequential ==
    /\ \A p \in Grid(camera) : Len(xs[p]) <= 1
    /\ \A v, w \in DOMAIN pc : v # w => WrittenBy(v) \cap WrittenBy(w) = {}
    /\ op = "rendered" =>
           /\ \A p \in Grid(camera) : Len(xs[p]) = 1
           /\ UNION {WrittenBy(w) : w \in DOMAIN pc} = Grid(camera)
           /\ ret = SequentialCanvas

\* Two workers have shared a picture of three rows, and the picture is not
\* of one color
ParallelRenderWitness ==
    /\ op = "rendered"
    /\ Cardinality(DOMAIN pc) = 2
    /\ camera.hsize = 3
    /\ camera.vsize = 3
    /\ WrittenBy(1) # {}
    /\ WrittenBy(2) # {}
    /\ ret.pixels[0][0] # ret.pixels[1][1]

----------------------------------------------------------------------------
(* color_at and shade_hit on a world without a light (SpecWorld) *)

\* The records of the ray that color_at was called with
RecordsOfRay == world_intersect(world, unwrap(ray))

\* shade_hit on each record of the ray panics
ShadeHitPanics ==
    \A k \in 1..Len(RecordsOfRay) :
        shade_hit(world, prepare_computations(RecordsOfRay[k], unwrap(ray))) = Panic

\* C18 as stated: on a world whose light is None, color_at fails for every
\* ray, and so does shade_hit.
ColorAtFailsWithoutLight ==
    (op = "color_at" /\ world.light = None) =>
        /\ ret = Panic
        /\ ShadeHitPanics

\* C18, amended: on a world whose light is None shade_hit fails with an
\* error and returns no color; color_at fails in the same way for every ray
\* that hits a shape (a record with t >= 0), and returns black, without an
\* error, for a ray that hits none.
ColorAtFailsWithoutLightOnHit ==
    (op = "color_at" /\ world.light = None) =>
        /\ ShadeHitPanics
        /\ hit(RecordsOfRay) # None => ret = Panic
        /\ hit(RecordsOfRay) = None => ret = BLACK

\* color_at has panicked on a hit in a world of two shapes and no light
ColorAtWithoutLightWitness ==
    /\ op = "color_at"
    /\ world.light = None
    /\ Len(world.objects) = 2
    /\ hit(RecordsOfRay) # None
    /\ ret = Panic

----------------------------------------------------------------------------
(* Rendering reads the scene and the camera, and writes neither (SpecRender) *)

\* C19: no step of render, with the calls of color_at, intersect,
\* is_shadowed and shade_hit it makes, changes the world's light, the order
\* or the contents of world.objects (each shape with its transform, inverse
\* transform and material) or a field of the camera.
RenderIsReadOnly ==
    [][/\ world'.light = world.light
       /\ world'.objects = world.objects
       /\ \A k \in 1..Len(world.objects) :
              /\ world'.objects[k].transform = world.objects[k].transform
              /\ world'.objects[k].inverse_transform = world.objects[k].inverse_transform
              /\ world'.objects[k].material = world.objects[k].material
       /\ camera' = camera]_vars

\* A render of the default world has returned: one ray met a shape, which
\* shade_hit colored, and another met none
RenderReadOnlyWitness ==
    /\ op = "rendered"
    /\ world = default_world
    /\ camera.transform # identity_4x4
    /\ \E j, k \in 1..Len(xs) :
           /\ xs[j].color # BLACK
           /\ xs[k].color = BLACK

----------------------------------------------------------------------------
(* The cached inverse of a shape's transform: which calls invert a matrix.
   xs lists, in order, the matrices that Matrix::inverse has been called on;
   pc counts the calls of intersect and normal_at. *)

\* Sphere::new and Plane::new: let inverse_transform = t.inverse()
new_inverts(transform) == <<transform>>

\* Shape::intersect and Sphere::intersect read self.inverse_transform()
intersect_inverts(shape, world_ray) == <<>>

\* Shape::normal_at reads self.inverse_transform(), twice
normal_at_inverts(shape, world_point) == <<>>

\* Sphere::normal_at of sphere.rs: self.transform.inverse(), twice
sphere_normal_at_inverts(shape, world_point) == <<shape.transform, shape.transform>>

InitCache ==
    /\ world = World(None, <<>>)
    /\ ray = None
    /\ xs = <<>>
    /\ op = "init"
    /\ ret = None
    /\ camera = None
    /\ image = None
    /\ pc = 0

\* Sphere::new(transform, material), Plane::new(transform, material)
CacheNew ==
    /\ op = "init"
    /\ \E shape \in NormalShapes :
          /\ world' = World(None, <<shape>>)
          /\ xs' = xs \o new_inverts(shape.transform)
    /\ op' = "new"
    /\ UNCHANGED <<ray, ret, camera, image, pc>>

\* shape.intersect(shape, world_ray)
CacheIntersect ==
    /\ op # "init"
    /\ pc < MaxCalls
    /\ \E r \in {TestRay, Ray(Vector3(0, 0, -5 * ONE), Vector3(0, ONE, 0))} :
          /\ ret' = intersect(world.objects[1], r)
          /\ xs' = xs \o intersect_inverts(world.objects[1], r)
    /\ op' = "intersect"
    /\ pc' = pc + 1
    /\ UNCHANGED <<world, ray, camera, image>>

\* shape.normal_at(world_point) of the Shape trait
CacheNormalAt ==
    /\ op # "init"
    /\ pc < MaxCalls
    /\ \E p \in Points :
          /\ magnitude(raw_normal(world.objects[1], p)) # 0
          /\ ret' = normal_at(world.objects[1], p)
          /\ xs' = xs \o normal_at_inverts(world.objects[1], p)
    /\ op' = "normal_at"
    /\ pc' = pc + 1
    /\ UNCHANGED <<world, ray, camera, image>>

\* sphere.normal_at(&world_point) of sphere.rs
CacheSphereNormalAt ==
    /\ op # "init"
    /\ pc < MaxCalls
    /\ world.objects[1].kind = "Sphere"
    /\ \E p \in Points :
          /\ magnitude(raw_normal(world.objects[1], p)) # 0
          /\ ret' = SphereNormalAt(world.objects[1], p)
          /\ xs' = xs \o sphere_normal_at_inverts(world.objects[1], p)
    /\ op' = "sphere_normal_at"
    /\ pc' = pc + 1
    /\ UNCHANGED <<world, ray, camera, image>>

NextCache == CacheNew \/ CacheIntersect \/ CacheNormalAt \/ CacheSphereNormalAt

SpecCache == InitCache /\ [][NextCache]_vars

\* C20: a shape's inverse transform is computed once, at construction, and
\* never again: the cached inverse_transform is inverse(transform) in every
\* state, and after any calls of intersect and normal_at the only inversion
\* there has been is the one of the constructor.
InverseComputedOnce ==
    op # "init" =>
        /\ world.objects[1].inverse_transform = inverse(world.objects[1].transform)
        /\ xs = <<world.objects[1].transform>>

----------------------------------------------------------------------------
(* Equality of shapes *)

\* The materials of the compared shapes: the default one, the one of the
\* default world's first sphere, and the default one with its ambient
\* moved by less than EPSILON
EqMaterials ==
    {MaterialNew,
     default_world.objects[1].material,
     [MaterialNew EXCEPT !.ambient = @ + EPSILON \div 2]}

EqTransforms == {identity_4x4, translation(Vector3(0, ONE, 0))}

\* Spheres with the ids a process hands out, and planes
EqShapes ==
    {SphereNew(id, t, mat) : id \in 1..MaxObjects, t \in EqTransforms, mat \in EqMaterials}
      \cup {PlaneNew(0, t, mat) : t \in EqTransforms, mat \in EqMaterials}

InitEq ==
    /\ world = World(None, <<>>)
    /\ ray = None
    /\ xs \in {<<a, b>> : a \in EqShapes, b \in EqShapes}
    /\ op = "init"
    /\ ret = None
    /\ camera = None
    /\ image = None
    /\ pc = None

\* a == b for two spheres, with the equality of sphere.rs
CompareSpheres ==
    /\ op = "init"
    /\ xs[1].kind = "Sphere"
    /\ xs[2].kind = "Sphere"
    /\ ret' = SphereEq(xs[1], xs[2])
    /\ op' = "sphere_eq"
    /\ UNCHANGED <<world, ray, xs, camera, image, pc>>

\* a == b as dyn Shape, a being a plane and b a shape of any kind
CompareShapes ==
    /\ op = "init"
    /\ xs[1].kind = "Plane"
    /\ ret' = ShapeEq(xs[1], xs[2])
    /\ op' = "shape_eq"
    /\ UNCHANGED <<world, ray, xs, camera, image, pc>>

NextEq == CompareSpheres \/ CompareShapes

SpecEq == InitEq /\ [][NextEq]_vars

\* Every field of the two materials within EPSILON
SameMaterial(a, b) ==
    /\ \A f \in {"ambient", "diffuse", "specular", "shininess"} :
           FAbs(a.material[f] - b.material[f]) < EPSILON
    /\ \A f \in {"r", "g", "b"} :
           FAbs(a.material.color[f] - b.material.color[f]) < EPSILON

\* Every entry of the two transforms within EPSILON
SameTransform(a, b) ==
    \A r \in 0..3, c \in 0..3 :
        FAbs(a.transform.data[r][c] - b.transform.data[r][c]) < EPSILON

----------------------------------------------------------------------------
(* Equality of values that hold floats: two values that differ in one float
   component, by delta *)

ApproxVector == Vector3(ONE, -HALF, 0)

ApproxMatrix == translation(Vector3(ONE, 2 * ONE, -ONE))

ApproxLight == PointLight(Vector3(0, ONE, 0), WHITE)

ApproxRecord == Intersection(HALF, PlaneNew(0, identity_4x4, MaterialNew))

Pair(kind, a, b, d) == [kind |-> kind, a |-> a, b |-> b, delta |-> d]

ApproxPairs(d) ==
    {Pair("Vector3", ApproxVector, [ApproxVector EXCEPT ![f] = @ + d], d) :
        f \in {"x", "y", "z"}}
    \cup {Pair("Color", WHITE, [WHITE EXCEPT ![f] = @ + d], d) : f \in {"r", "g", "b"}}
    \cup {Pair("Matrix", ApproxMatrix, [ApproxMatrix EXCEPT !.data[r][c] = @ + d], d) :
             r \in 0..3, c \in 0..3}
    \cup {Pair("Material", MaterialNew, [MaterialNew EXCEPT ![f] = @ + d], d) :
             f \in {"ambient", "diffuse", "specular", "shininess"}}
    \cup {Pair("Material", MaterialNew, [MaterialNew EXCEPT !.color.r = @ + d], d),
          Pair("PointLight", ApproxLight, [ApproxLight EXCEPT !.position.x = @ + d], d),
          Pair("PointLight", ApproxLight, [ApproxLight EXCEPT !.intensity.g = @ + d], d),
          Pair("Intersection", ApproxRecord, [ApproxRecord EXCEPT !.t = @ + d], d)}

InitApprox ==
    /\ world = World(None, <<>>)
    /\ ray = None
    /\ xs \in UNION {ApproxPairs(d) : d \in (-MaxDelta)..MaxDelta}
    /\ op = "init"
    /\ ret = None
    /\ camera = None
    /\ image = None
    /\ pc = None

\* a == b, with the equality of the values' type
CompareValues ==
    /\ op = "init"
    /\ ret' = CASE xs.kind = "Vector3" -> Vector3Eq(xs.a, xs.b)
                [] xs.kind = "Color" -> ColorEq(xs.a, xs.b)
                [] xs.kind = "Matrix" -> MatrixEq(xs.a, xs.b)
                [] xs.kind = "Material" -> MaterialEq(xs.a, xs.b)
                [] xs.kind = "PointLight" -> PointLightEq(xs.a, xs.b)
                [] xs.kind = "Intersection" -> IntersectionEq(xs.a, xs.b)
    /\ op' = "eq"
    /\ UNCHANGED <<world, ray, xs, camera, image, pc>>

NextApprox == CompareValues

SpecApprox == InitApprox /\ [][NextApprox]_vars

\* C22: the equality of every data-model type that holds floats (Vector3,
\* Matrix, Color, Material, PointLight, Intersection) takes two floats that
\* differ by less than EPSILON as equal; none compares the floats exactly.
FloatEqualityWithinEpsilon ==
    (op = "eq" /\ FAbs(xs.delta) < EPSILON) => ret = TRUE

----------------------------------------------------------------------------
(* Camera::new *)

\* Small pictures, and the sizes of the camera tests
CameraSizes == (1..MaxSize) \cup {101, 125, 200, 201}

InitCamera ==
    /\ world = World(None, <<>>)
    /\ ray = None
    /\ xs \in {[hsize |-> h, vsize |-> v, field_of_view |-> f] :
                  h \in CameraSizes, v \in CameraSizes, f \in {PI_2, PI_3}}
    /\ op = "init"
    /\ ret = None
    /\ camera = None
    /\ image = None
    /\ pc = None

\* Camera::new(hsize, vsize, field_of_view)
NewCamera ==
    /\ op = "init"
    /\ camera' = CameraNew(xs.hsize, xs.vsize, xs.field_of_view)
    /\ op' = "new"
    /\ UNCHANGED <<world, ray, xs, ret, image, pc>>

NextCamera == NewCamera

SpecCamera == InitCamera /\ [][NextCamera]_vars

\* a / b = c / d, as a * d = b * c. Of a and b one is a fixed-point quotient
\* or product by the rounded aspect ratio, off by up to two units of the
\* model, which the factor across multiplies
SameRatio(a, b, c, d) == FAbs(a * d - b * c) <= 2 * (c + d)

\* C23: Camera::new gives tan(fov / 2) to the larger of half_width and
\* half_height (half_width when hsize / vsize >= 1, half_height otherwise),
\* keeps half_width / half_height = hsize / vsize, and sets
\* pixel_size = 2 * half_width / hsize = 2 * half_height / vsize; the
\* cameras of 200 x 125 and 125 x 200 pixels with pi / 2 have pixel_size 0.01.
CameraNewDerivesExtents ==
    op = "new" =>
        /\ camera.hsize = xs.hsize /\ camera.vsize = xs.vsize
        /\ IF xs.hsize >= xs.vsize
              THEN /\ camera.half_width = half_view_of(xs.field_of_view)
                   /\ camera.half_height <= camera.half_width
              ELSE /\ camera.half_height = half_view_of(xs.field_of_view)
                   /\ camera.half_width <= camera.half_height
        /\ SameRatio(camera.half_width, camera.half_height, xs.hsize, xs.vsize)
        /\ approximately(camera.pixel_size,
                         FDiv(2 * camera.half_width, xs.hsize * ONE))
        /\ approximately(camera.pixel_size,
                         FDiv(2 * camera.half_height, xs.vsize * ONE))
        /\ (xs.field_of_view = PI_2 /\ {xs.hsize, xs.vsize} = {125, 200}) =>
               approximately(camera.pixel_size, ONE \div 100)

\* The vertical camera of the tests: 125 x 200 pixels, pi / 2
CameraNewWitness ==
    /\ op = "new"
    /\ xs.hsize = 125
    /\ xs.vsize = 200
    /\ xs.field_of_view = PI_2
    /\ camera.half_height = ONE
    /\ camera.half_width < ONE

----------------------------------------------------------------------------
(* Camera::ray_for_pixel *)

\* The views of the camera tests: none, the view from (0, 0, -5) and the
\* camera turned by pi / 4 and moved
PixelViews ==
    CameraTransforms
      \cup {multiply_4x4(rotation_y(PI_4), translation(Vector3(0, -2 * ONE, 5 * ONE)))}

\* Every pixel of the small cameras, and the center and the corner of the
\* camera of 201 x 101 pixels
PixelInputs ==
    {[camera |-> CameraAt(h, v, PI_2, t), px |-> x, py |-> y] :
        h \in 1..MaxSize, v \in 1..MaxSize, t \in PixelViews,
        x \in 0..(MaxSize - 1), y \in 0..(MaxSize - 1)}
    \cup {[camera |-> CameraAt(201, 101, PI_2, t), px |-> p[1], py |-> p[2]] :
             t \in PixelViews, p \in {<<100, 50>>, <<0, 0>>}}

InitPixel ==
    /\ world = World(None, <<>>)
    /\ ray = None
    /\ \E i \in PixelInputs :
          /\ i.px < i.camera.hsize
          /\ i.py < i.camera.vsize
          /\ camera = i.camera
          /\ xs = [px |-> i.px, py |-> i.py]
    /\ op = "init"
    /\ ret = None
    /\ image = None
    /\ pc = None

\* camera.ray_for_pixel(px, py)
RayForPixel ==
    /\ op = "init"
    /\ ray' = Some(ray_for_pixel(camera, xs.px, xs.py))
    /\ op' = "ray_for_pixel"
    /\ UNCHANGED <<world, xs, ret, camera, image, pc>>

NextPixel == RayForPixel

SpecPixel == InitPixel /\ [][NextPixel]_vars

\* The point of the canvas, at z = -1, that pixel (px, py) is centered on
CanvasPoint(c, px, py) ==
    Vector3(c.half_width - FMul(px * ONE + HALF, c.pixel_size),
            c.half_height - FMul(py * ONE + HALF, c.pixel_size),
            -ONE)

\* Within tol of each other, component by component
Vector3Near(a, b, tol) ==
    FAbs(a.x - b.x) <= tol /\ FAbs(a.y - b.y) <= tol /\ FAbs(a.z - b.z) <= tol

\* The rounding of pixel_size, a unit of the model, grows with the pixel's
\* index: the center of a wide canvas is found to within hsize units
CenterSlack(c) == IF c.hsize > EPSILON THEN c.hsize ELSE EPSILON

\* C24: the ray of pixel (px, py) starts at the image of the point (0, 0, 0)
\* under the inverse of the view and points, normalised, from there to the
\* image of the pixel's canvas point; with the identity view the origin is
\* (0, 0, 0), the direction's x falls as px grows and its y falls as py
\* grows, and the center pixel of an odd-sized canvas looks along (0, 0, -1).
RayForPixelContract ==
    op = "ray_for_pixel" =>
        LET r == unwrap(ray)
            inv == inverse(camera.transform)
            from == multiply_vector4(inv, Vector3(0, 0, 0), ONE)
            to == multiply_vector4(inv, CanvasPoint(camera, xs.px, xs.py), ONE)
        IN  /\ r.origin = from
            /\ r.direction = normalize(VSub(to, from))
            /\ camera.transform = identity_4x4 =>
                  /\ r.origin = Vector3(0, 0, 0)
                  /\ xs.px + 1 < camera.hsize =>
                        ray_for_pixel(camera, xs.px + 1, xs.py).direction.x < r.direction.x
                  /\ xs.py + 1 < camera.vsize =>
                        ray_for_pixel(camera, xs.px, xs.py + 1).direction.y < r.direction.y
                  /\ (camera.hsize = 2 * xs.px + 1 /\ camera.vsize = 2 * xs.py + 1) =>
                        Vector3Near(r.direction, Vector3(0, 0, -ONE), CenterSlack(camera))

\* The center of the turned camera of 201 x 101 pixels: the ray starts at
\* (0, 2, -5) and looks along (sqrt(2)/2, 0, -sqrt(2)/2)
RayForPixelWitness ==
    /\ op = "ray_for_pixel"
    /\ camera.hsize = 201
    /\ xs.px = 100
    /\ Vector3Near(unwrap(ray).origin, Vector3(0, 2 * ONE, -5 * ONE), CenterSlack(camera))
    /\ Vector3Near(unwrap(ray).direction, Vector3(707107, 0, -707107), CenterSlack(camera))

----------------------------------------------------------------------------
(* A color channel to a byte *)

\* Channel values from -1 to 2 in steps of 1/40, the values next to 0, 1/2
\* and 1, and those around 1/255
ChannelValues ==
    {k * (ONE \div 40) : k \in (-40)..80}
      \cup {-1, 1, HALF - 1, HALF + 1, ONE - 1, ONE + 1, 3921, 3922}

InitByte ==
    /\ world = World(None, <<>>)
    /\ ray = None
    /\ xs \in ChannelValues
    /\ op = "init"
    /\ ret = None
    /\ camera = None
    /\ image = None
    /\ pc = None

\* The byte of channel value xs, by the PPM and by the PNG encoder
ChannelToByte ==
    /\ op = "init"
    /\ ret' = [ppm |-> f64_to_ppm_pixel(xs), png |-> convert_rbg_value_to_byte(xs)]
    /\ op' = "byte"
    /\ UNCHANGED <<world, ray, xs, camera, image, pc>>

NextByte == ChannelToByte

SpecByte == InitByte /\ [][NextByte]_vars

\* 255 * min(max(v, 0), 1), in units of the model
Scaled(v) == 255 * (IF v <= 0 THEN 0 ELSE IF v >= ONE THEN ONE ELSE v)

\* C25: the byte of a channel value v is the least integer that is not less
\* than 255 * min(max(v, 0), 1): it lies in 0..255, is 0 for v <= 0, 255 for
\* v >= 1 and 128 for v = 0.5, and the PPM and PNG encoders give the same.
ByteIsCeilOfClamped ==
    op = "byte" =>
        /\ ret.ppm \in 0..255
        /\ ret.ppm * ONE >= Scaled(xs)
        /\ (ret.ppm - 1) * ONE < Scaled(xs)
        /\ xs <= 0 => ret.ppm = 0
        /\ xs >= ONE => ret.ppm = 255
        /\ xs = HALF => ret.ppm = 128
        /\ ret.png = ret.ppm

\* The channel value 0.5 has been converted, to 128 by both encoders
ByteWitness ==
    /\ op = "byte"
    /\ xs = HALF
    /\ ret = [ppm |-> 128, png |-> 128]

----------------------------------------------------------------------------
(* render on a world without a light *)

\* No light: nothing to see, a floor under the camera, the two spheres of
\* the default world
DarkWorlds ==
    {World(None, <<>>),
     World(None, <<Catalogue[4]>>),
     World(None, default_world.objects)}

InitDark ==
    /\ world \in DarkWorlds
    /\ camera \in Cameras
    /\ ray = None
    /\ xs = <<>>
    /\ op = "init"
    /\ ret = None
    /\ image = None
    /\ pc = None

\* render as in SpecRender, on a world without a light
SpecDark == InitDark /\ [][NextRender]_vars /\ WF_<<op, pc>>(RenderRuns)

\* The ray of pixel (x, y) has an intersection with t >= 0
HasHit(x, y) == hit(world_intersect(world, ray_for_pixel(camera, x, y))) # None

\* The pixels of the picture whose ray has an intersection with t >= 0, as
\* their positions in row-major order (from 0)
HitPositions ==
    {k \in 0..(camera.hsize * camera.vsize - 1) :
        HasHit(k % camera.hsize, k \div camera.hsize)}

\* The pixels resolved so far are the first Len(xs) in row-major order, all
\* black, and none of their rays has a hit
ResolvedBlackBeforeHit ==
    \A k \in 1..Len(xs) :
        /\ xs[k].x = (k - 1) % camera.hsize
        /\ xs[k].y = (k - 1) \div camera.hsize
        /\ xs[k].color = BLACK
        /\ (k - 1) \notin HitPositions

\* The error is at the first pixel with a hit, and there is no canvas
PanicAtFirstHit ==
    /\ Len(xs) \in HitPositions
    /\ \A k \in HitPositions : k >= Len(xs)
    /\ pc = [y |-> Len(xs) \div camera.hsize, x |-> Len(xs) % camera.hsize]
    /\ ResolvedBlackBeforeHit
    /\ ret = None
    /\ image = None

\* C26: on a world without a light render fails at the first pixel, in
\* row-major order, whose ray has an intersection with t >= 0: every pixel
\* before it has been written black, no pixel is resolved after the error,
\* no canvas is returned, and when some pixel has a hit the error does come.
RenderFailsAtFirstHit ==
    /\ [](op = "panicked" => PanicAtFirstHit)
    /\ [](op = "panicked" => [](op = "panicked" /\ ret = None))
    /\ \A n \in 0..(MaxSize * MaxSize) :
          [](op = "panicked" /\ Len(xs) = n => [](Len(xs) = n))
    /\ [](op = "rendered" => HitPositions = {})
    /\ (op = "init" /\ HitPositions # {}) ~> (op = "panicked")

\* render has failed on the fifth pixel of a 3 x 3 picture, after four
\* black pixels
RenderPanicWitness ==
    /\ op = "panicked"
    /\ world.light = None
    /\ camera.hsize = 3
    /\ Len(xs) = 4
    /\ \A k \in 1..4 : xs[k].color = BLACK
    /\ ret = None

----------------------------------------------------------------------------
(* The canvas: Canvas::new and write_pixel, of src/canvas.rs and of
   ray_tracer_lib/src/canvas.rs *)

\* The color written
RED == Color(ONE, 0, 0)

InitCanvas ==
    /\ world = World(None, <<>>)
    /\ ray = None
    /\ xs \in [width : 1..MaxSize, height : 1..MaxSize, lib : BOOLEAN]
    /\ op = "init"
    /\ ret = None
    /\ camera = None
    /\ image = None
    /\ pc = 0

\* canvas::new(width, height)
NewCanvas ==
    /\ op = "init"
    /\ ~xs.lib
    /\ image' = CanvasNew(xs.width, xs.height)
    /\ op' = "new"
    /\ UNCHANGED <<world, ray, xs, ret, camera, pc>>

\* ray_tracer_lib's Canvas::new(width, height)
LibNewCanvas ==
    /\ op = "init"
    /\ xs.lib
    /\ image' = LibCanvasNew(xs.width, xs.height)
    /\ op' = "new"
    /\ UNCHANGED <<world, ray, xs, ret, camera, pc>>

\* canvas.write_pixel(x, y, &RED), x and y of type isize; ret records the
\* call and the canvas it was made on
WritePixel ==
    /\ op \in {"new", "written"}
    /\ ~xs.lib
    /\ pc < MaxCalls
    /\ \E x \in (-1)..xs.width, y \in (-1)..xs.height :
          /\ image' = write_pixel(image, x, y, RED)
          /\ ret' = [x |-> x, y |-> y, color |-> RED, before |-> image]
    /\ op' = "written"
    /\ pc' = pc + 1
    /\ UNCHANGED <<world, ray, xs, camera>>

\* ray_tracer_lib's canvas.write_pixel(x, y, &RED), x and y of type usize;
\* a panic leaves the canvas as it was
LibWritePixelCall ==
    /\ op \in {"new", "written"}
    /\ xs.lib
    /\ pc < MaxCalls
    /\ \E x \in 0..xs.width, y \in 0..xs.height :
          \E result \in {LibWritePixel(image, x, y, RED)} :
             /\ image' = IF result = Panic THEN image ELSE result
             /\ op' = IF result = Panic THEN "panicked" ELSE "written"
             /\ ret' = [x |-> x, y |-> y, color |-> RED, before |-> image]
    /\ pc' = pc + 1
    /\ UNCHANGED <<world, ray, xs, camera>>

NextCanvas == NewCanvas \/ LibNewCanvas \/ WritePixel \/ LibWritePixelCall

SpecCanvas == InitCanvas /\ [][NextCanvas]_vars

\* Pixel (x, y) of a canvas of the kind in use
PixelOf(canvas, x, y) ==
    IF xs.lib THEN canvas.pixels[y][x] ELSE canvas.pixels[x][y]

\* (x, y) is a position of the canvas
OnCanvas(x, y) == x \in 0..(xs.width - 1) /\ y \in 0..(xs.height - 1)

\* C27: write_pixel(x, y, c) on the canvas sets pixel (x, y) to c and
\* leaves every other pixel and the dimensions as they were; off the canvas
\* it leaves the whole canvas as it was and reports no error.  A new canvas
\* has every pixel black.
WritePixelFrame ==
    /\ op = "new" =>
          /\ image.width = xs.width /\ image.height = xs.height
          /\ \A x \in 0..(xs.width - 1), y \in 0..(xs.height - 1) :
                PixelOf(image, x, y) = BLACK
    /\ op \in {"written", "panicked"} =>
          /\ op = "written"
          /\ image.width = xs.width /\ image.height = xs.height
          /\ \A x \in 0..(xs.width - 1), y \in 0..(xs.height - 1) :
                PixelOf(image, x, y) =
                    IF x = ret.x /\ y = ret.y THEN ret.color
                    ELSE PixelOf(ret.before, x, y)
          /\ ~OnCanvas(ret.x, ret.y) => image = ret.before

----------------------------------------------------------------------------
(* A canvas to PPM *)

\* The colors written: 255 0 0 and 0 128 0 in the file
PpmColors == {RED, Color(0, HALF, 0)}

InitPpm ==
    /\ world = World(None, <<>>)
    /\ ray = None
    /\ xs \in [width : 1..MaxSize, height : 1..MaxSize, lib : {FALSE}]
    /\ op = "init"
    /\ ret = None
    /\ camera = None
    /\ image = None
    /\ pc = <<>>

\* let mut canvas = canvas::new(width, height); pc logs the writes
PpmCanvas ==
    /\ NewCanvas
    /\ pc = <<>>

\* canvas.write_pixel(x, y, &color) at a position of the canvas
PpmWrite ==
    /\ op = "new"
    /\ Len(pc) < MaxCalls
    /\ \E x \in 0..(xs.width - 1), y \in 0..(xs.height - 1), color \in PpmColors :
          /\ image' = write_pixel(image, x, y, color)
          /\ pc' = Append(pc, [x |-> x, y |-> y, color |-> color])
    /\ UNCHANGED <<world, ray, xs, op, ret, camera>>

\* canvas_to_ppm(&canvas)
ToPpm ==
    /\ op = "new"
    /\ ret' = canvas_to_ppm(image)
    /\ op' = "ppm"
    /\ UNCHANGED <<world, ray, xs, camera, image, pc>>

NextPpm == PpmCanvas \/ PpmWrite \/ ToPpm

SpecPpm == InitPpm /\ [][NextPpm]_vars

\* The color last written to (x, y) with write_pixel, black when none was
Written(x, y) ==
    LET ks == {k \in 1..Len(pc) : pc[k].x = x /\ pc[k].y = y}
    IN  IF ks = {} THEN BLACK
        ELSE pc[CHOOSE k \in ks : \A j \in ks : j <= k].color

\* C28: canvas_to_ppm gives the lines P3, <width> <height>, 255 and then
\* width * height pixel lines, each ended by a newline, in row-major order:
\* pixel line k (from 0) is the pixel written with
\* write_pixel(k mod width, k div width).
PpmRowMajor ==
    op = "ppm" =>
        /\ Len(ret) = 3 + xs.width * xs.height
        /\ ret[1] = "P3\n"
        /\ ret[2] = ToString(xs.width) \o " " \o ToString(xs.height) \o "\n"
        /\ ret[3] = "255\n"
        /\ \A k \in 0..(xs.width * xs.height - 1) :
              ret[4 + k] =
                  color_to_ppm_pixel(Written(k % xs.width, k \div xs.width)) \o "\n"

----------------------------------------------------------------------------
(* Shapes that a ray meets at the same t *)

\* Two unit spheres at the origin and two floors at y = -1, of different
\* materials
TieCatalogue ==
    <<default_world.objects[1],
      SphereNew(5, identity_4x4, MaterialNew),
      Catalogue[4],
      PlaneNew(6, translation(Vector3(0, -ONE, 0)), default_world.objects[1].material)>>

\* Every list of two or three different shapes of the catalogue, lit as
\* the default world
TieWorlds ==
    {World(default_world.light, [i \in 1..Len(s) |-> TieCatalogue[s[i]]]) :
        s \in {q \in UNION {[1..n -> 1..Len(TieCatalogue)] : n \in 2..(MaxObjects + 1)} :
                  \A i, j \in 1..Len(q) : i # j => q[i] # q[j]}}

\* From outside the spheres along +z, from their center along +z and down
\* to the floors, and a ray that meets nothing
TieRays ==
    {Ray(Vector3(0, 0, -5 * ONE), Vector3(0, 0, ONE)),
     Ray(Vector3(0, 0, 0), Vector3(0, 0, ONE)),
     Ray(Vector3(0, 0, 0), Vector3(0, -ONE, 0)),
     Ray(Vector3(0, 2 * ONE, 0), Vector3(0, ONE, 0))}

InitTie ==
    /\ world \in TieWorlds
    /\ ray = None
    /\ xs = <<>>
    /\ op = "init"
    /\ ret = None
    /\ camera = None
    /\ image = None
    /\ pc = None

\* world.intersect(&ray).hit()
TieHit ==
    /\ op = "init"
    /\ \E r \in TieRays :
          /\ ray' = Some(r)
          /\ xs' = world_intersect(world, r)
          /\ ret' = hit(world_intersect(world, r))
    /\ op' = "hit"
    /\ UNCHANGED <<world, camera, image, pc>>

\* world.color_at(ray)
TieColorAt ==
    /\ op = "init"
    /\ \E r \in TieRays :
          /\ ray' = Some(r)
          /\ ret' = color_at(world, r)
    /\ op' = "color_at"
    /\ UNCHANGED <<world, xs, camera, image, pc>>

NextTie == TieHit \/ TieColorAt

SpecTie == InitTie /\ [][NextTie]_vars

\* The t >= 0 at which shape k of the world meets the ray
HitTsOf(k) ==
    LET records == intersect(world.objects[k], unwrap(ray))
    IN  {records[i].t : i \in {j \in 1..Len(records) : records[j].t >= 0}}

\* The shapes of the world that meet the ray at the least t >= 0 of all, as
\* positions in world.objects
TiedShapes ==
    {k \in 1..Len(world.objects) :
        \E t \in HitTsOf(k) : \A j \in 1..Len(world.objects) : \A u \in HitTsOf(j) : t <= u}

\* The least t >= 0 of all shapes, when there is one
TiedT ==
    LET ts == HitTsOf(CHOOSE k \in TiedShapes : TRUE)
    IN  CHOOSE t \in ts : \A u \in ts : t <= u

\* The first of the tied shapes in world.objects
FirstTied == CHOOSE k \in TiedShapes : \A j \in TiedShapes : k <= j

\* C29: of the records that share the least t >= 0, hit returns the one that
\* comes first in the collection, and color_at shades the shape that comes
\* first in world.objects among the shapes tied at that t.
TiesGoToTheFirst ==
    /\ op = "hit" /\ ret # None =>
          \E k \in 1..Len(xs) :
             /\ unwrap(ret) = xs[k]
             /\ \A j \in 1..Len(xs) : xs[j].t >= 0 => xs[k].t <= xs[j].t
             /\ \A j \in 1..(k - 1) : xs[j].t # xs[k].t
             /\ xs[k].object = world.objects[FirstTied]
    /\ op = "color_at" /\ TiedShapes # {} =>
          ret = shade_hit(world,
                          prepare_computations(
                              Intersection(TiedT, world.objects[FirstTied]),
                              unwrap(ray)))

\* color_at has shaded the first of two shapes of different materials that
\* meet the ray at the same least t, and the other one would have given
\* another color
TieWitness ==
    /\ op = "color_at"
    /\ \E k \in TiedShapes :
          /\ k > FirstTied
          /\ ret # shade_hit(world,
                             prepare_computations(
                                 Intersection(TiedT, world.objects[k]), unwrap(ray)))
    /\ ret = shade_hit(world,
                       prepare_computations(
                           Intersection(TiedT, world.objects[FirstTied]), unwrap(ray)))

----------------------------------------------------------------------------
(* The ids of spheres: threads 1..MaxWorkers call Sphere::new, MaxCalls
   times each.  SPHERE_ID is a static mut that sphere_id() reads and writes
   without synchronisation, so the steps of SPHERE_ID += 1; SPHERE_ID of
   one thread interleave with those of the others, and what the last read
   gives is either the memory or the value the thread has just stored.
   xs.SPHERE_ID is the static, xs.register the value each thread has loaded,
   xs.spheres the ids of the spheres built, in the order of their
   construction; pc is each thread's position and number of calls. *)

InitIds ==
    /\ world = World(None, <<>>)
    /\ ray = None
    /\ xs = [SPHERE_ID |-> 0,
             register |-> [w \in 1..MaxWorkers |-> 0],
             spheres |-> <<>>]
    /\ op = "init"
    /\ ret = None
    /\ camera = None
    /\ image = None
    /\ pc = [w \in 1..MaxWorkers |-> [at |-> "idle", calls |-> 0]]

\* Thread w enters sphere_id(): the load of SPHERE_ID += 1
IdLoad(w) ==
    /\ pc[w].at = "idle"
    /\ pc[w].calls < MaxCalls
    /\ xs' = [xs EXCEPT !.register[w] = xs.SPHERE_ID]
    /\ pc' = [pc EXCEPT ![w].at = "loaded"]
    /\ UNCHANGED <<world, ray, op, ret, camera, image>>

\* The store of SPHERE_ID += 1
IdStore(w) ==
    /\ pc[w].at = "loaded"
    /\ xs' = [xs EXCEPT !.SPHERE_ID = xs.register[w] + 1]
    /\ pc' = [pc EXCEPT ![w].at = "stored"]
    /\ UNCHANGED <<world, ray, op, ret, camera, image>>

\* sphere_id() returns SPHERE_ID, read again or kept from the store, and
\* Sphere::new builds the sphere with it
IdReturn(w) ==
    /\ pc[w].at = "stored"
    /\ \E id \in {xs.SPHERE_ID, xs.register[w] + 1} :
          xs' = [xs EXCEPT !.spheres =
                    Append(xs.spheres, SphereNew(id, identity_4x4, MaterialNew))]
    /\ pc' = [pc EXCEPT ![w] = [at |-> "idle", calls |-> pc[w].calls + 1]]
    /\ UNCHANGED <<world, ray, op, ret, camera, image>>

NextIds == \E w \in 1..MaxWorkers : IdLoad(w) \/ IdStore(w) \/ IdReturn(w)

SpecIds == InitIds /\ [][NextIds]_vars

\* C30: every Sphere::new gives an id greater than every id given before
\* it, the first being 1, so that two spheres never share an id and never
\* compare equal, whatever the interleaving of the threads that build them.
SphereIdsIncrease ==
    /\ xs.spheres # <<>> => xs.spheres[1].id = 1
    /\ \A j, k \in 1..Len(xs.spheres) :
          j < k => /\ xs.spheres[j].id < xs.spheres[k].id
                   /\ ~SphereEq(xs.spheres[j], xs.spheres[k])

============================================================================
